---- MODULE Spec2Model ----
(***************************************************************************)
(* Model of dn, a checker of natural-deduction proofs: the formula parser  *)
(* (dn-lib/src/formula.rs) and the proof checker (dn-lib/src/proof.rs).    *)
(*                                                                         *)
(* A Formula tree is written in prefix form, as a sequence of strings:     *)
(*   Variable('a') is <<"a">>, Top is <<"Top">>, Not(f) is <<"Not">> \o f,  *)
(*   And(l, r) is <<"And">> \o l \o r, and so on.  Prefix form is a one to  *)
(* one encoding of the trees, so sequence equality is the derived          *)
(* PartialEq of the enum.                                                  *)
(***************************************************************************)
EXTENDS Integers, Sequences, FiniteSets, TLC

\* Longest input of arbitrary lexemes given to Formula::read.
MaxLen == 4

\* Longest parenthesis-free well-formed input given to Formula::read.
MaxWFLen == 7

\* Most records of a proof.
MaxRecords == 3

\* Width in bits of the machine word (usize) of the model.
UsizeBits == 6

\* How far a formula may outgrow the longest input before the model stops
\* following a reduction that does not end.
MaxGrowth == 2

\* The most records that come before the record whose check is applied.
MaxBefore == 2

\* Most records of a proof that is checked after every record added.
MaxSession == 4

\* Deepest nesting of parentheses of a fully parenthesised input.
MaxDepth == 2

\* The inputs of read_record have at most MaxFields fields.
MaxFields == 5

\* The inputs of Jusitification::read have at most MaxTokens tokens.
MaxTokens == 5

VARIABLES
    debug_assertions, \* build profile: TRUE for a debug build, FALSE for a release build
    lexemes,          \* Formula::read: the lexemes the for loop has taken so far
    stack,            \* Formula::read: the ops stack (ParseStackItem)
    formulas,         \* Formula::read: the stack of completed formulas
    regime,           \* Formula::read: Regime
    state,            \* Formula::read: ParseState
    pc,               \* Formula::read: position in the function
    result,           \* Formula::read: "none" while running, then "Ok", an error name or "panic"
    parsed,           \* Formula::read: the formula returned with Ok
    records,          \* Proof.records
    valid,            \* Proof.valid (CheckUpResult)
    call,             \* Proof: the last method called
    arg,              \* Proof: the id given to the last check_up_to or check_single_record
    ret               \* Proof: what the last call returned: "Ok", "Err", an error name or "panic"

parser_vars == <<lexemes, stack, formulas, regime, state, pc, result, parsed>>

proof_vars == <<records, valid, call, arg, ret>>

vars == <<debug_assertions, parser_vars, proof_vars>>

(***************************************************************************)
(* Sequences                                                               *)
(***************************************************************************)
Last(s) == s[Len(s)]

Front(s) == SubSeq(s, 1, Len(s) - 1)

(***************************************************************************)
(* formula.rs: lexemes, operators, priorities                              *)
(***************************************************************************)
Variables == {"a", "b"}

Atoms == Variables \cup {"Top", "Bottom"}

BinaryOperators == {"Or", "And", "Implies", "RLImplies", "Equiv"}

Operators == {"Not"} \cup BinaryOperators

Lexemes == Atoms \cup Operators \cup {"OpeningParenthesis", "ClosingParenthesis"}

cmp(left, right) ==
    IF left = "Not" THEN (IF right = "Not" THEN "Less" ELSE "More")
    ELSE IF left = "And" THEN (IF right = "Not" THEN "Less" ELSE "More")
    ELSE IF left = "Or" THEN (IF right \in {"Not", "And"} THEN "Less" ELSE "More")
    ELSE IF left = "Implies"
         THEN (IF right \in {"Not", "And", "Or", "Implies"} THEN "Less" ELSE "More")
    ELSE IF left = "RLImplies"
         THEN (IF right \in {"Not", "And", "Or", "Implies"} THEN "Less" ELSE "More")
    ELSE (IF right = "Equiv" THEN "More" ELSE "Less")

is_unary(o) == o = "Not"

(***************************************************************************)
(* formula.rs: the reducer                                                 *)
(***************************************************************************)
ZOT(n, l, r) == [n |-> n, left |-> l, right |-> r]

get_last_two_ops_from_stack(st) ==
    IF st = <<>> THEN ZOT(0, "none", "none")
    ELSE IF Len(st) = 1
         THEN (IF st[1] = "Parenthesis" THEN ZOT(0, "none", "none")
               ELSE ZOT(1, "none", st[1]))
    ELSE IF Last(st) = "Parenthesis" THEN ZOT(0, "none", "none")
    ELSE IF st[Len(st) - 1] = "Parenthesis" THEN ZOT(1, "none", Last(st))
    ELSE ZOT(2, st[Len(st) - 1], Last(st))

\* Result of a fallible step on the formulas stack.
Built(err, fs) == [err |-> err, formulas |-> fs]

build_from_operator(operator, fs) ==
    IF operator = "Not"
    THEN (IF Len(fs) < 1 THEN Built("AFormulaIsMissing", fs)
          ELSE Built("none", Append(Front(fs), <<"Not">> \o Last(fs))))
    ELSE (IF Len(fs) < 2 THEN Built("AFormulaIsMissing", fs)
          ELSE Built("none", Append(SubSeq(fs, 1, Len(fs) - 2),
                                    <<operator>> \o fs[Len(fs) - 1] \o fs[Len(fs)])))

\* assert_eq!(Some(item), stack.pop()): pops, and panics unless item was on top.
assert_eq_pop(st, item) ==
    IF st = <<>> THEN [ok |-> FALSE, stack |-> st]
    ELSE [ok |-> Last(st) = item, stack |-> Front(st)]

\* debug_assert_eq!(Some(item), stack.pop()): a release build does not evaluate
\* the arguments, so there the pop does not happen.
debug_assert_eq_pop(dbg, st, item) ==
    IF dbg THEN assert_eq_pop(st, item) ELSE [ok |-> TRUE, stack |-> st]

\* One iteration of the loop of eat: the new stack, formulas and regime, and
\* err = "none", the TokenizationError returned, or "panic".
Eaten(st, fs, rg, err) == [stack |-> st, formulas |-> fs, regime |-> rg, err |-> err]

\* The three arms of the iteration that detach the topmost formula, apply left
\* and restore the formula and right (Priority::More with state Constant).
eat_swap(st, fs, left, right, dbg, next_regime, missing) ==
    LET p1 == debug_assert_eq_pop(dbg, st, right)
        p2 == debug_assert_eq_pop(dbg, p1.stack, left)
        b  == build_from_operator(left, Front(fs))
    IN  IF dbg /\ is_unary(right) THEN Eaten(st, fs, next_regime, "panic")
        ELSE IF ~p1.ok THEN Eaten(st, fs, next_regime, "panic")
        ELSE IF fs = <<>> THEN Eaten(st, fs, next_regime, missing)
        ELSE IF ~p2.ok THEN Eaten(st, fs, next_regime, "panic")
        ELSE IF b.err # "none" THEN Eaten(st, fs, next_regime, b.err)
        ELSE Eaten(Append(p2.stack, right), Append(b.formulas, Last(fs)), next_regime, "none")

eat_Eat(st, ps, fs, dbg) ==
    LET z == get_last_two_ops_from_stack(st) IN
    IF z.n = 0
    THEN (IF ps = "Operator" THEN Eaten(st, fs, "Eat", "InternalError0")
          ELSE Eaten(st, fs, "Stop", "none"))
    ELSE IF z.n = 1
    THEN (IF ps = "BeginingANewGroup"
          THEN (IF is_unary(z.right) THEN Eaten(st, fs, "Stop", "none")
                ELSE Eaten(st, fs, "Eat", "TooManyFormulas"))
          ELSE IF ps = "Operator" THEN Eaten(st, fs, "Stop", "none")
          ELSE IF is_unary(z.right)
               THEN LET p == debug_assert_eq_pop(dbg, st, z.right)
                        b == build_from_operator(z.right, fs)
                    IN  IF ~p.ok THEN Eaten(st, fs, "Eat", "panic")
                        ELSE IF b.err # "none" THEN Eaten(st, fs, "Eat", b.err)
                        ELSE Eaten(p.stack, b.formulas, "Stop", "none")
               ELSE Eaten(st, fs, "Stop", "none"))
    ELSE (IF ps = "BeginingANewGroup" THEN Eaten(st, fs, "Eat", "InternalError1")
          ELSE IF ps = "Constant"
          THEN (IF cmp(z.left, z.right) = "Less"
                THEN LET p == debug_assert_eq_pop(dbg, st, z.right)
                         b == build_from_operator(z.right, fs)
                     IN  IF ~p.ok THEN Eaten(st, fs, "Eat", "panic")
                         ELSE IF b.err # "none" THEN Eaten(st, fs, "Eat", b.err)
                         ELSE Eaten(p.stack, b.formulas, "Eat", "none")
                ELSE eat_swap(st, fs, z.left, z.right, dbg, "Eat", "InternalError2"))
          ELSE (IF cmp(z.left, z.right) = "Less" THEN Eaten(st, fs, "Stop", "none")
                ELSE IF is_unary(z.right) THEN Eaten(st, fs, "Stop", "none")
                ELSE LET p1 == debug_assert_eq_pop(dbg, st, z.right)
                         p2 == debug_assert_eq_pop(dbg, p1.stack, z.left)
                         b  == build_from_operator(z.left, fs)
                     IN  IF ~p1.ok \/ ~p2.ok THEN Eaten(st, fs, "Eat", "panic")
                         ELSE IF b.err # "none" THEN Eaten(st, fs, "Eat", b.err)
                         ELSE Eaten(Append(p2.stack, z.right), b.formulas, "Eat", "none")))

eat_ForceEat(st, ps, fs, dbg) ==
    LET z == get_last_two_ops_from_stack(st) IN
    IF z.n = 0
    THEN (IF ps = "BeginingANewGroup" THEN Eaten(st, fs, "ForceEat", "EmptyParenthesis")
          ELSE IF ps = "Operator"
               THEN Eaten(st, fs, "ForceEat", "OperatorWithoutRightHandside")
          ELSE LET p == debug_assert_eq_pop(dbg, st, "Parenthesis")
               IN  IF ~p.ok THEN Eaten(st, fs, "ForceEat", "panic")
                   ELSE Eaten(p.stack, fs, "Eat", "none"))
    ELSE IF z.n = 1
    THEN (IF ps \in {"BeginingANewGroup", "Operator"}
          THEN Eaten(st, fs, "ForceEat", "OperatorWithoutRightHandside")
          ELSE LET p1 == assert_eq_pop(st, z.right)
                   p2 == assert_eq_pop(p1.stack, "Parenthesis")
                   b  == build_from_operator(z.right, fs)
               IN  IF ~p1.ok \/ ~p2.ok THEN Eaten(st, fs, "ForceEat", "panic")
                   ELSE IF b.err # "none" THEN Eaten(st, fs, "ForceEat", b.err)
                   ELSE Eaten(p2.stack, b.formulas, "Eat", "none"))
    ELSE (IF ps = "BeginingANewGroup" THEN Eaten(st, fs, "ForceEat", "InternalError3")
          ELSE IF ps = "Operator"
               THEN Eaten(st, fs, "ForceEat", "OperatorWithoutRightHandside")
          ELSE IF cmp(z.left, z.right) = "Less"
               THEN LET p == assert_eq_pop(st, z.right)
                        b == build_from_operator(z.right, fs)
                    IN  IF ~p.ok THEN Eaten(st, fs, "ForceEat", "panic")
                        ELSE IF b.err # "none" THEN Eaten(st, fs, "ForceEat", b.err)
                        ELSE Eaten(p.stack, b.formulas, "Eat", "none")
               ELSE eat_swap(st, fs, z.left, z.right, dbg, "ForceEat", "AFormulaIsMissing"))

eat_EndEat(st, ps, fs, dbg) ==
    LET z == get_last_two_ops_from_stack(st) IN
    IF z.n = 0
    THEN (IF ps = "BeginingANewGroup" THEN Eaten(st, fs, "EndEat", "EmptyParenthesis")
          ELSE IF ps = "Operator"
               THEN Eaten(st, fs, "EndEat", "OperatorWithoutRightHandside")
          ELSE Eaten(st, fs, "Stop", "none"))
    ELSE IF z.n = 1
    THEN (IF ps = "BeginingANewGroup" THEN Eaten(st, fs, "EndEat", "InvalidSubFormula")
          ELSE IF ps = "Operator"
               THEN Eaten(st, fs, "EndEat", "OperatorWithoutRightHandside")
          ELSE LET p == assert_eq_pop(st, z.right)
                   b == build_from_operator(z.right, fs)
               IN  IF ~p.ok THEN Eaten(st, fs, "EndEat", "panic")
                   ELSE IF b.err # "none" THEN Eaten(st, fs, "EndEat", b.err)
                   ELSE Eaten(p.stack, b.formulas, "EndEat", "none"))
    ELSE (IF ps = "BeginingANewGroup" THEN Eaten(st, fs, "EndEat", "InternalError4")
          ELSE IF ps = "Operator"
               THEN Eaten(st, fs, "EndEat", "OperatorWithoutRightHandside")
          ELSE IF cmp(z.left, z.right) = "Less"
               THEN LET p == assert_eq_pop(st, z.right)
                        b == build_from_operator(z.right, fs)
                    IN  IF ~p.ok THEN Eaten(st, fs, "EndEat", "panic")
                        ELSE IF b.err # "none" THEN Eaten(st, fs, "EndEat", b.err)
                        ELSE Eaten(p.stack, b.formulas, "EndEat", "none")
               ELSE eat_swap(st, fs, z.left, z.right, dbg, "EndEat", "AFormulaIsMissing"))

\* One iteration of the loop of eat, for a regime other than Stop.
eat(st, ps, rg, fs, dbg) ==
    IF rg = "Eat" THEN eat_Eat(st, ps, fs, dbg)
    ELSE IF rg = "ForceEat" THEN eat_ForceEat(st, ps, fs, dbg)
    ELSE eat_EndEat(st, ps, fs, dbg)

(***************************************************************************)
(* formula.rs: Formula::read                                               *)
(***************************************************************************)
\* The inputs: every string of at most MaxLen lexemes, and every prefix of a
\* well-formed parenthesis-free input of at most MaxWFLen lexemes over the
\* variables.
WFPrefix(s) ==
    \A i \in 1..Len(s) :
        /\ s[i] \in Variables \cup Operators
        /\ (i = 1 \/ s[i - 1] \in Operators) => s[i] \in Variables \cup {"Not"}
        /\ (i > 1 /\ s[i - 1] \in Variables) => s[i] \in BinaryOperators

InputAllowed(s) ==
    \/ Len(s) <= MaxLen
    \/ Len(s) <= MaxWFLen /\ WFPrefix(s)

InitRead ==
    /\ debug_assertions \in BOOLEAN
    /\ lexemes = <<>>
    /\ stack = <<>>
    /\ formulas = <<>>
    /\ regime = "Stop"
    /\ state = "BeginingANewGroup"
    /\ pc = "for"
    /\ result = "none"
    /\ parsed = <<>>
    /\ records = <<>>
    /\ valid = [kind |-> "NotChecked", n |-> 0, errors |-> <<>>]
    /\ call = "none"
    /\ arg = 0
    /\ ret = "none"

\* No call of Formula::read is in progress.
NoRead ==
    /\ lexemes = <<>>
    /\ stack = <<>>
    /\ formulas = <<>>
    /\ regime = "Stop"
    /\ state = "BeginingANewGroup"
    /\ pc = "idle"
    /\ result = "none"
    /\ parsed = <<>>

\* read_lexeme_in that does not push a binary operator on the ops stack.
read_lexeme_in_binary_unpushed(l, allowed) ==
    /\ pc = "for"
    /\ allowed
    /\ lexemes' = Append(lexemes, l)
    /\ regime' = IF l = "ClosingParenthesis" THEN "ForceEat" ELSE "Eat"
    /\ state' = IF l = "OpeningParenthesis" THEN "BeginingANewGroup"
                ELSE IF l \in Atoms THEN "Constant"
                ELSE IF l = "ClosingParenthesis" THEN state
                ELSE "Operator"
    /\ stack' = IF l = "OpeningParenthesis" THEN Append(stack, "Parenthesis")
                ELSE IF l = "Not" THEN Append(stack, l)
                ELSE stack
    /\ formulas' = IF l \in Atoms THEN Append(formulas, <<l>>) ELSE formulas
    /\ pc' = "eat"
    /\ UNCHANGED <<debug_assertions, proof_vars, result, parsed>>

\* The for loop takes the next lexeme, of an input that is allowed:
\* read_lexeme, then the call of eat.
read_lexeme_in(l, allowed) ==
    /\ pc = "for"
    /\ allowed
    /\ lexemes' = Append(lexemes, l)
    /\ regime' = IF l = "ClosingParenthesis" THEN "ForceEat" ELSE "Eat"
    /\ state' = IF l = "OpeningParenthesis" THEN "BeginingANewGroup"
                ELSE IF l \in Atoms THEN "Constant"
                ELSE IF l = "ClosingParenthesis" THEN state
                ELSE "Operator"
    /\ stack' = IF l = "OpeningParenthesis" THEN Append(stack, "Parenthesis")
                ELSE IF l \in Operators THEN Append(stack, l)
                ELSE stack
    /\ formulas' = IF l \in Atoms THEN Append(formulas, <<l>>) ELSE formulas
    /\ pc' = "eat"
    /\ UNCHANGED <<debug_assertions, proof_vars, result, parsed>>

read_lexeme(l) == read_lexeme_in(l, InputAllowed(Append(lexemes, l)))

\* The loop of eat finds the regime Stop and breaks: eat returns Ok(()).
eat_break ==
    /\ pc \in {"eat", "end_eat"}
    /\ regime = "Stop"
    /\ pc' = IF pc = "eat" THEN "for" ELSE "return"
    /\ UNCHANGED <<debug_assertions, proof_vars, lexemes, stack, formulas, regime, state, result, parsed>>

\* One iteration of the loop of eat that goes on.
eat_iteration ==
    /\ pc \in {"eat", "end_eat"}
    /\ regime # "Stop"
    /\ LET r == eat(stack, state, regime, formulas, debug_assertions) IN
        /\ r.err = "none"
        /\ \A i \in 1..Len(r.formulas) : Len(r.formulas[i]) <= MaxWFLen + MaxGrowth
        /\ Len(r.stack) <= MaxWFLen + MaxGrowth
        /\ stack' = r.stack
        /\ formulas' = r.formulas
        /\ regime' = r.regime
    /\ UNCHANGED <<debug_assertions, proof_vars, lexemes, state, pc, result, parsed>>

\* One iteration of the loop of eat that returns an error, which read returns
\* in turn, or that panics.
eat_error ==
    /\ pc \in {"eat", "end_eat"}
    /\ regime # "Stop"
    /\ LET r == eat(stack, state, regime, formulas, debug_assertions) IN
        /\ r.err # "none"
        /\ result' = r.err
    /\ pc' = "done"
    /\ UNCHANGED <<debug_assertions, proof_vars, lexemes, stack, formulas, regime, state, parsed>>

\* The for loop is over: regime = EndEat and the last call of eat.
end_of_input ==
    /\ pc = "for"
    /\ regime' = "EndEat"
    /\ pc' = "end_eat"
    /\ UNCHANGED <<debug_assertions, proof_vars, lexemes, stack, formulas, state, result, parsed>>

\* return Ok(formulas.pop().unwrap())
read_return ==
    /\ pc = "return"
    /\ IF formulas = <<>>
       THEN /\ result' = "panic"
            /\ UNCHANGED <<formulas, parsed>>
       ELSE /\ result' = "Ok"
            /\ parsed' = Last(formulas)
            /\ formulas' = Front(formulas)
    /\ pc' = "done"
    /\ UNCHANGED <<debug_assertions, proof_vars, lexemes, stack, regime, state>>

NextRead ==
    \/ \E l \in Lexemes : read_lexeme(l)
    \/ eat_break
    \/ eat_iteration
    \/ eat_error
    \/ end_of_input
    \/ read_return

SpecRead == InitRead /\ [][NextRead]_vars

(***************************************************************************)
(* Claims about Formula::read                                              *)
(***************************************************************************)
\* A well-formed parenthesis-free input: operands, each a variable under any
\* number of Not, separated by binary operators.
WellFormed(s) == s # <<>> /\ WFPrefix(s) /\ Last(s) \in Variables

Positions(s, op) == {i \in 1..Len(s) : s[i] = op}

Max(S) == CHOOSE x \in S : \A y \in S : y <= x

Min(S) == CHOOSE x \in S : \A y \in S : x <= y

\* The loosest binary operator of s, in the order Equiv, RLImplies, Implies,
\* Or, And from loosest to tightest, or "none".
Loosest(s) ==
    IF Positions(s, "Equiv") # {} THEN "Equiv"
    ELSE IF Positions(s, "RLImplies") # {} THEN "RLImplies"
    ELSE IF Positions(s, "Implies") # {} THEN "Implies"
    ELSE IF Positions(s, "Or") # {} THEN "Or"
    ELSE IF Positions(s, "And") # {} THEN "And"
    ELSE "none"

\* The reference precedence parser of a well-formed parenthesis-free input: the
\* root is the loosest operator, at its last occurrence when it associates to
\* the left and at its first when it associates to the right (Implies); an
\* operand, a variable under its Nots, is its own prefix form.
RECURSIVE ReferenceParse(_)
ReferenceParse(s) ==
    LET op == Loosest(s) IN
    IF op = "none" THEN s
    ELSE LET k == IF op = "Implies" THEN Min(Positions(s, op)) ELSE Max(Positions(s, op))
         IN  <<op>> \o ReferenceParse(SubSeq(s, 1, k - 1))
                    \o ReferenceParse(SubSeq(s, k + 1, Len(s)))

\* C1: in a debug build, once Formula::read has returned on a well-formed
\* parenthesis-free input, it has returned Ok with the tree of the reference
\* precedence parser.
C1_ReadIsPrecedenceParse ==
    (debug_assertions /\ pc = "done" /\ WellFormed(lexemes))
        => (result = "Ok" /\ parsed = ReferenceParse(lexemes))

\* C2: in a debug build, when the last call of eat has stopped and read is
\* about to return Ok, formulas holds exactly one formula and the ops stack is
\* empty.
C2_OneFormulaEmptyOps ==
    (debug_assertions /\ pc = "return") => (Len(formulas) = 1 /\ stack = <<>>)

\* C3: Formula::read never panics: no assertion of eat fails and no pop or
\* unwrap of an empty stack aborts the call.
C3_ReadNeverPanics == result # "panic"

(***************************************************************************)
(* formula.rs: the Formula enum, in prefix form                            *)
(***************************************************************************)
Variable(c) == <<c>>

Bottom == <<"Bottom">>

Not(f) == <<"Not">> \o f

Or(l, r) == <<"Or">> \o l \o r

And(l, r) == <<"And">> \o l \o r

Implies(l, r) == <<"Implies">> \o l \o r

\* The length of the sub-formula of f that starts at position i.
RECURSIVE SubLen(_, _)
SubLen(f, i) ==
    IF f[i] = "Not" THEN 1 + SubLen(f, i + 1)
    ELSE IF f[i] \in BinaryOperators
         THEN LET l == SubLen(f, i + 1) IN 1 + l + SubLen(f, i + 1 + l)
    ELSE 1

\* The two children of a binary node and the child of a Not node.
Left(f) == SubSeq(f, 2, 1 + SubLen(f, 2))

Right(f) == SubSeq(f, 2 + SubLen(f, 2), Len(f))

Inner(f) == SubSeq(f, 2, Len(f))

(***************************************************************************)
(* record.rs, justif.rs: Record, Statement, Jusitification                 *)
(***************************************************************************)
\* A Jusitification: the rule, its record positions in the order of the
\* variant's fields, and its formula (IOrL and IOrR only).
Justif(rule, pos, f) == [rule |-> rule, pos |-> pos, formula |-> f]

Hyp == Justif("Hyp", <<>>, <<>>)

IImpl == Justif("IImpl", <<>>, <<>>)

Record(id, ctxt, kind, f, justif) ==
    [id |-> id, ctxt |-> ctxt, stmt |-> [kind |-> kind, formula |-> f], justif |-> justif]

get_formula(stmt) == stmt.formula

(***************************************************************************)
(* proof.rs: the check of one record                                       *)
(***************************************************************************)
UsizeMax == 2 ^ UsizeBits - 1

\* records[i] of the source, whose indices start at 0.
At(recs, i) == recs[i + 1]

\* check_ctxt_compatibility with its two arguments in each other's place.
check_ctxt_compatibility_swapped(current, compatible) ==
    IF Len(compatible) > Len(current) THEN FALSE
    ELSE compatible = SubSeq(current, 1, Len(compatible))

check_ctxt_compatibility(current, compatible) ==
    IF Len(current) > Len(compatible) THEN FALSE
    ELSE current = SubSeq(compatible, 1, Len(current))

\* check_Supposons without the comparison of the context with the previous one.
check_Supposons_prefix_unchecked(recs, id) ==
    LET rec == At(recs, id)
        bad_ctxt ==
            IF id # 0
            THEN LET ante == At(recs, id - 1) IN
                 IF Len(rec.ctxt) # Len(ante.ctxt) + 1 THEN "SuppCtxtOneMoreThenBefore"
                 ELSE IF Last(rec.ctxt) # rec.id THEN "SuppCtxtLastIsId"
                 ELSE "Ok"
            ELSE IF Len(rec.ctxt) # 1 THEN "SuppCtxtOneMoreThenBefore"
                 ELSE IF rec.ctxt[1] # rec.id THEN "SuppCtxtLastIsId"
                 ELSE "Ok"
    IN  IF bad_ctxt # "Ok" THEN bad_ctxt
        ELSE IF rec.justif.rule = "Hyp" THEN "Ok"
        ELSE "SuppJustIsHyp"

\* check_Supposons without the comparison of the last element with the id.
check_Supposons_last_unchecked(recs, id) ==
    LET rec == At(recs, id)
        bad_ctxt ==
            IF id # 0
            THEN LET ante == At(recs, id - 1) IN
                 IF Len(rec.ctxt) # Len(ante.ctxt) + 1 THEN "SuppCtxtOneMoreThenBefore"
                 ELSE IF Front(rec.ctxt) # ante.ctxt THEN "SuppCtxtSameAsBefore"
                 ELSE "Ok"
            ELSE IF Len(rec.ctxt) # 1 THEN "SuppCtxtOneMoreThenBefore"
                 ELSE "Ok"
    IN  IF bad_ctxt # "Ok" THEN bad_ctxt
        ELSE IF rec.justif.rule = "Hyp" THEN "Ok"
        ELSE "SuppJustIsHyp"

check_Supposons(recs, id) ==
    LET rec == At(recs, id)
        bad_ctxt ==
            IF id # 0
            THEN LET ante == At(recs, id - 1) IN
                 IF Len(rec.ctxt) # Len(ante.ctxt) + 1 THEN "SuppCtxtOneMoreThenBefore"
                 ELSE IF Front(rec.ctxt) # ante.ctxt THEN "SuppCtxtSameAsBefore"
                 ELSE IF Last(rec.ctxt) # rec.id THEN "SuppCtxtLastIsId"
                 ELSE "Ok"
            ELSE IF Len(rec.ctxt) # 1 THEN "SuppCtxtOneMoreThenBefore"
                 ELSE IF rec.ctxt[1] # rec.id THEN "SuppCtxtLastIsId"
                 ELSE "Ok"
    IN  IF bad_ctxt # "Ok" THEN bad_ctxt
        ELSE IF rec.justif.rule = "Hyp" THEN "Ok"
        ELSE "SuppJustIsHyp"

\* check_Donc comparing hyp_pos + 1 with id.
check_Donc_plus_one(recs, id, dbg) ==
    LET rec == At(recs, id)
        conclusion == rec.stmt.formula
    IN  IF rec.justif.rule # "IImpl" THEN "DoncJustifIsIImpl"
        ELSE IF id = 0 THEN "DoncNotFirst"
        ELSE LET cons == At(recs, id - 1) IN
            IF Len(cons.ctxt) # Len(rec.ctxt) + 1 THEN "DoncCtxtOneLessThenBefore"
            ELSE IF SubSeq(cons.ctxt, 1, Len(rec.ctxt)) # rec.ctxt THEN "DoncCtxtSameAsBefore"
            ELSE LET hyp_pos == Last(cons.ctxt)
                     sum == hyp_pos + 1
                 IN  IF sum > UsizeMax /\ dbg THEN "panic"
                     ELSE IF sum % (UsizeMax + 1) > id THEN "DoncHypDifCons"
                     ELSE IF hyp_pos >= Len(recs) THEN "panic"
                     ELSE IF conclusion[1] = "Implies"
                          THEN (IF Left(conclusion) # get_formula(At(recs, hyp_pos).stmt)
                                THEN "DoncHypNotMatching"
                                ELSE IF Right(conclusion) # get_formula(cons.stmt)
                                THEN "DoncConsNotMatching"
                                ELSE "Ok")
                     ELSE "DoncFormulaIsImplies"

\* check_Donc without the comparison of the context with the previous one.
check_Donc_prefix_unchecked(recs, id, dbg) ==
    LET rec == At(recs, id)
        conclusion == rec.stmt.formula
    IN  IF rec.justif.rule # "IImpl" THEN "DoncJustifIsIImpl"
        ELSE IF id = 0 THEN "DoncNotFirst"
        ELSE LET cons == At(recs, id - 1) IN
            IF Len(cons.ctxt) # Len(rec.ctxt) + 1 THEN "DoncCtxtOneLessThenBefore"
            ELSE LET hyp_pos == Last(cons.ctxt)
                     sum == hyp_pos + 2
                 IN  IF sum > UsizeMax /\ dbg THEN "panic"
                     ELSE IF sum % (UsizeMax + 1) > id THEN "DoncHypDifCons"
                     ELSE IF hyp_pos >= Len(recs) THEN "panic"
                     ELSE IF conclusion[1] = "Implies"
                          THEN (IF Left(conclusion) # get_formula(At(recs, hyp_pos).stmt)
                                THEN "DoncHypNotMatching"
                                ELSE IF Right(conclusion) # get_formula(cons.stmt)
                                THEN "DoncConsNotMatching"
                                ELSE "Ok")
                     ELSE "DoncFormulaIsImplies"

\* hyp_pos + 2 > id: the sum panics on overflow in a debug build and wraps in a
\* release build.
check_Donc(recs, id, dbg) ==
    LET rec == At(recs, id)
        conclusion == rec.stmt.formula
    IN  IF rec.justif.rule # "IImpl" THEN "DoncJustifIsIImpl"
        ELSE IF id = 0 THEN "DoncNotFirst"
        ELSE LET cons == At(recs, id - 1) IN
            IF Len(cons.ctxt) # Len(rec.ctxt) + 1 THEN "DoncCtxtOneLessThenBefore"
            ELSE IF SubSeq(cons.ctxt, 1, Len(rec.ctxt)) # rec.ctxt THEN "DoncCtxtSameAsBefore"
            ELSE LET hyp_pos == Last(cons.ctxt)
                     sum == hyp_pos + 2
                 IN  IF sum > UsizeMax /\ dbg THEN "panic"
                     ELSE IF sum % (UsizeMax + 1) > id THEN "DoncHypDifCons"
                     ELSE IF hyp_pos >= Len(recs) THEN "panic"
                     ELSE IF conclusion[1] = "Implies"
                          THEN (IF Left(conclusion) # get_formula(At(recs, hyp_pos).stmt)
                                THEN "DoncHypNotMatching"
                                ELSE IF Right(conclusion) # get_formula(cons.stmt)
                                THEN "DoncConsNotMatching"
                                ELSE "Ok")
                     ELSE "DoncFormulaIsImplies"

check_IOrL(recs, id) ==
    LET rec == At(recs, id)
        formula == rec.stmt.formula
        right_pos == rec.justif.pos[1]
    IN  IF right_pos >= id THEN "IOrLPosLesser"
        ELSE IF ~check_ctxt_compatibility(rec.ctxt, At(recs, right_pos).ctxt)
             THEN "IOrLIncompatibleCtxt"
        ELSE IF formula[1] = "Or"
             THEN (IF Left(formula) # rec.justif.formula THEN "IOrLLeftNotMatching"
                   ELSE IF Right(formula) # get_formula(At(recs, right_pos).stmt)
                   THEN "IOrLRightNotMatching"
                   ELSE "Ok")
        ELSE "IOrLFormulaIsOr"

check_IOrR(recs, id) ==
    LET rec == At(recs, id)
        formula == rec.stmt.formula
        left_pos == rec.justif.pos[1]
    IN  IF left_pos >= id THEN "IOrRPosLesser"
        ELSE IF ~check_ctxt_compatibility(rec.ctxt, At(recs, left_pos).ctxt)
             THEN "IOrRIncompatibleCtxt"
        ELSE IF formula[1] = "Or"
             THEN (IF Right(formula) # rec.justif.formula THEN "IOrRRightNotMatching"
                   ELSE IF Left(formula) # get_formula(At(recs, left_pos).stmt)
                   THEN "IOrRRightNotMatching"
                   ELSE "Ok")
        ELSE "IOrRFormulaIsOr"

\* check_EOr that does not compare the consequence with the formula of the record.
check_EOr_eliminated_unchecked(recs, id) ==
    LET rec == At(recs, id)
        formula == rec.stmt.formula
        a_to_c == rec.justif.pos[1]
        b_to_c == rec.justif.pos[2]
        a_or_b == rec.justif.pos[3]
    IN  IF a_to_c >= id THEN "EOrA2CPosLesser"
        ELSE IF b_to_c >= id THEN "EOrB2CPosLesser"
        ELSE IF a_or_b >= id THEN "EOrAOBPosLesser"
        ELSE IF ~check_ctxt_compatibility(rec.ctxt, At(recs, a_to_c).ctxt)
             THEN "EOrA2CIncompatibleCtxt"
        ELSE IF ~check_ctxt_compatibility(rec.ctxt, At(recs, b_to_c).ctxt)
             THEN "EOrB2CIncompatibleCtxt"
        ELSE IF ~check_ctxt_compatibility(rec.ctxt, At(recs, a_or_b).ctxt)
             THEN "EOrAOBIncompatibleCtxt"
        ELSE LET atc == get_formula(At(recs, a_to_c).stmt)
                 btc == get_formula(At(recs, b_to_c).stmt)
                 aob == get_formula(At(recs, a_or_b).stmt)
             IN  IF atc[1] = "Implies" /\ btc[1] = "Implies" /\ aob[1] = "Or"
                 THEN (IF Left(aob) # Left(atc) THEN "EOrAFormulaNotMatching"
                       ELSE IF Right(aob) # Left(btc) THEN "EOrBFormulaNotMatching"
                       ELSE IF Right(atc) # Right(btc)
                       THEN "EOrCFormulaNotMatchingConsequences"
                       ELSE "Ok")
                 ELSE "EOrFormulasNotRightKind"

check_EOr(recs, id) ==
    LET rec == At(recs, id)
        formula == rec.stmt.formula
        a_to_c == rec.justif.pos[1]
        b_to_c == rec.justif.pos[2]
        a_or_b == rec.justif.pos[3]
    IN  IF a_to_c >= id THEN "EOrA2CPosLesser"
        ELSE IF b_to_c >= id THEN "EOrB2CPosLesser"
        ELSE IF a_or_b >= id THEN "EOrAOBPosLesser"
        ELSE IF ~check_ctxt_compatibility(rec.ctxt, At(recs, a_to_c).ctxt)
             THEN "EOrA2CIncompatibleCtxt"
        ELSE IF ~check_ctxt_compatibility(rec.ctxt, At(recs, b_to_c).ctxt)
             THEN "EOrB2CIncompatibleCtxt"
        ELSE IF ~check_ctxt_compatibility(rec.ctxt, At(recs, a_or_b).ctxt)
             THEN "EOrAOBIncompatibleCtxt"
        ELSE LET atc == get_formula(At(recs, a_to_c).stmt)
                 btc == get_formula(At(recs, b_to_c).stmt)
                 aob == get_formula(At(recs, a_or_b).stmt)
             IN  IF atc[1] = "Implies" /\ btc[1] = "Implies" /\ aob[1] = "Or"
                 THEN (IF Left(aob) # Left(atc) THEN "EOrAFormulaNotMatching"
                       ELSE IF Right(aob) # Left(btc) THEN "EOrBFormulaNotMatching"
                       ELSE IF Right(atc) # Right(btc)
                       THEN "EOrCFormulaNotMatchingConsequences"
                       ELSE IF Right(atc) # formula THEN "EOrCFormulaNotMatchingEliminated"
                       ELSE "Ok")
                 ELSE "EOrFormulasNotRightKind"

check_IAnd(recs, id) ==
    LET rec == At(recs, id)
        formula == rec.stmt.formula
        left == rec.justif.pos[1]
        right == rec.justif.pos[2]
    IN  IF left >= id THEN "IAndLeftPosLesser"
        ELSE IF right >= id THEN "IAndRightPosLesser"
        ELSE IF ~check_ctxt_compatibility(rec.ctxt, At(recs, left).ctxt)
             THEN "IAndLeftIncompatibleCtxt"
        ELSE IF ~check_ctxt_compatibility(rec.ctxt, At(recs, right).ctxt)
             THEN "IAndRightIncompatibleCtxt"
        ELSE IF formula[1] = "And"
             THEN (IF Left(formula) # get_formula(At(recs, left).stmt)
                   THEN "IAndLeftNotMatching"
                   ELSE IF Right(formula) # get_formula(At(recs, right).stmt)
                   THEN "IAndRightNotMatching"
                   ELSE "Ok")
        ELSE "IAndFormulaIsAnd"

check_EAndL(recs, id) ==
    LET rec == At(recs, id)
        formula == rec.stmt.formula
        and_pos == rec.justif.pos[1]
    IN  IF and_pos >= id THEN "EAndPosLesser"
        ELSE IF ~check_ctxt_compatibility(rec.ctxt, At(recs, and_pos).ctxt)
             THEN "EAndIncompatibleCtxt"
        ELSE LET and == get_formula(At(recs, and_pos).stmt) IN
             IF and[1] = "And"
             THEN (IF Left(and) # formula THEN "EAndNotMatching" ELSE "Ok")
             ELSE "EAndFormulaIsAnd"

check_EAndR(recs, id) ==
    LET rec == At(recs, id)
        formula == rec.stmt.formula
        and_pos == rec.justif.pos[1]
    IN  IF and_pos >= id THEN "EAndPosLesser"
        ELSE IF ~check_ctxt_compatibility(rec.ctxt, At(recs, and_pos).ctxt)
             THEN "EAndIncompatibleCtxt"
        ELSE LET and == get_formula(At(recs, and_pos).stmt) IN
             IF and[1] = "And"
             THEN (IF Right(and) # formula THEN "EAndNotMatching" ELSE "Ok")
             ELSE "EAndFormulaIsAnd"

\* check_EImpl that does not compare the cited hypothesis with the left of the implication.
check_EImpl_hyp_unchecked(recs, id) ==
    LET rec == At(recs, id)
        formula == rec.stmt.formula
        hyp == rec.justif.pos[1]
        implication == rec.justif.pos[2]
    IN  IF hyp >= id THEN "EImplHypPosLesser"
        ELSE IF implication >= id THEN "EImplImplPosLesser"
        ELSE IF ~check_ctxt_compatibility(rec.ctxt, At(recs, hyp).ctxt)
             THEN "EImplHypIncompatibleCtxt"
        ELSE IF ~check_ctxt_compatibility(rec.ctxt, At(recs, implication).ctxt)
             THEN "EImplImplIncompatibleCtxt"
        ELSE LET impl == get_formula(At(recs, implication).stmt) IN
             IF impl[1] = "Implies"
             THEN (IF Right(impl) # formula THEN "EImplImplNotMatching"
                   ELSE "Ok")
             ELSE "EImplFormulaIsImpl"

check_EImpl(recs, id) ==
    LET rec == At(recs, id)
        formula == rec.stmt.formula
        hyp == rec.justif.pos[1]
        implication == rec.justif.pos[2]
    IN  IF hyp >= id THEN "EImplHypPosLesser"
        ELSE IF implication >= id THEN "EImplImplPosLesser"
        ELSE IF ~check_ctxt_compatibility(rec.ctxt, At(recs, hyp).ctxt)
             THEN "EImplHypIncompatibleCtxt"
        ELSE IF ~check_ctxt_compatibility(rec.ctxt, At(recs, implication).ctxt)
             THEN "EImplImplIncompatibleCtxt"
        ELSE LET impl == get_formula(At(recs, implication).stmt) IN
             IF impl[1] = "Implies"
             THEN (IF Left(impl) # get_formula(At(recs, hyp).stmt) THEN "EImplHypNotMatching"
                   ELSE IF Right(impl) # formula THEN "EImplImplNotMatching"
                   ELSE "Ok")
             ELSE "EImplFormulaIsImpl"

check_Efq(recs, id) ==
    LET rec == At(recs, id)
        bot_pos == rec.justif.pos[1]
    IN  IF bot_pos >= id THEN "EfqPosLesser"
        ELSE IF ~check_ctxt_compatibility(rec.ctxt, At(recs, bot_pos).ctxt)
             THEN "EfqIncompatibleCtxt"
        ELSE IF get_formula(At(recs, bot_pos).stmt) # Bottom THEN "EfqFormulaIsBot"
        ELSE "Ok"

check_Raa(recs, id) ==
    LET rec == At(recs, id)
        formula == rec.stmt.formula
        nn_pos == rec.justif.pos[1]
    IN  IF nn_pos >= id THEN "RaaPosLesser"
        ELSE IF ~check_ctxt_compatibility(rec.ctxt, At(recs, nn_pos).ctxt)
             THEN "RaaIncompatibleCtxt"
        ELSE LET nn == get_formula(At(recs, nn_pos).stmt) IN
             IF nn[1] = "Not"
             THEN (IF Inner(nn)[1] = "Not"
                   THEN (IF Inner(Inner(nn)) # formula THEN "RaaNotMatching" ELSE "Ok")
                   ELSE "RaaFormulaIsNotNot")
             ELSE "RaaFormulaIsNotNot"

\* check_Simple taking Hyp as a justification of a Simple statement.
check_Simple_hyp_accepted(recs, id) ==
    LET rec == At(recs, id)
        rule == rec.justif.rule
    IN  IF id = 0 THEN "SimpleIsFirst"
        ELSE IF rec.ctxt # At(recs, id - 1).ctxt THEN "SimpleCtxtSameAsBefore"
        ELSE IF rule = "IOrL" THEN check_IOrL(recs, id)
        ELSE IF rule = "IOrR" THEN check_IOrR(recs, id)
        ELSE IF rule = "EOr" THEN check_EOr(recs, id)
        ELSE IF rule = "IAnd" THEN check_IAnd(recs, id)
        ELSE IF rule = "EAndL" THEN check_EAndL(recs, id)
        ELSE IF rule = "EAndR" THEN check_EAndR(recs, id)
        ELSE IF rule = "Hyp" THEN "Ok"
        ELSE IF rule = "IImpl" THEN "IImplNotSimple"
        ELSE IF rule = "EImpl" THEN check_EImpl(recs, id)
        ELSE IF rule = "Efq" THEN check_Efq(recs, id)
        ELSE check_Raa(recs, id)

\* check_Simple that does not compare the context with the one of the previous record.
check_Simple_ctxt_unchecked(recs, id) ==
    LET rec == At(recs, id)
        rule == rec.justif.rule
    IN  IF id = 0 THEN "SimpleIsFirst"
        ELSE IF rule = "IOrL" THEN check_IOrL(recs, id)
        ELSE IF rule = "IOrR" THEN check_IOrR(recs, id)
        ELSE IF rule = "EOr" THEN check_EOr(recs, id)
        ELSE IF rule = "IAnd" THEN check_IAnd(recs, id)
        ELSE IF rule = "EAndL" THEN check_EAndL(recs, id)
        ELSE IF rule = "EAndR" THEN check_EAndR(recs, id)
        ELSE IF rule = "Hyp" THEN "HypNotSimple"
        ELSE IF rule = "IImpl" THEN "IImplNotSimple"
        ELSE IF rule = "EImpl" THEN check_EImpl(recs, id)
        ELSE IF rule = "Efq" THEN check_Efq(recs, id)
        ELSE check_Raa(recs, id)

check_Simple(recs, id) ==
    LET rec == At(recs, id)
        rule == rec.justif.rule
    IN  IF id = 0 THEN "SimpleIsFirst"
        ELSE IF rec.ctxt # At(recs, id - 1).ctxt THEN "SimpleCtxtSameAsBefore"
        ELSE IF rule = "IOrL" THEN check_IOrL(recs, id)
        ELSE IF rule = "IOrR" THEN check_IOrR(recs, id)
        ELSE IF rule = "EOr" THEN check_EOr(recs, id)
        ELSE IF rule = "IAnd" THEN check_IAnd(recs, id)
        ELSE IF rule = "EAndL" THEN check_EAndL(recs, id)
        ELSE IF rule = "EAndR" THEN check_EAndR(recs, id)
        ELSE IF rule = "Hyp" THEN "HypNotSimple"
        ELSE IF rule = "IImpl" THEN "IImplNotSimple"
        ELSE IF rule = "EImpl" THEN check_EImpl(recs, id)
        ELSE IF rule = "Efq" THEN check_Efq(recs, id)
        ELSE check_Raa(recs, id)

\* check_single_record that tests the id after the statement and the
\* justification.
check_single_record_id_last(recs, id, dbg) ==
    IF id >= Len(recs) THEN "InternalError"
    ELSE LET r == IF At(recs, id).stmt.kind = "Supposons" THEN check_Supposons(recs, id)
                  ELSE IF At(recs, id).stmt.kind = "Donc" THEN check_Donc(recs, id, dbg)
                  ELSE check_Simple(recs, id)
         IN  IF r # "Ok" THEN r
             ELSE IF At(recs, id).id # id THEN "IncorrectId"
             ELSE "Ok"

\* "Ok", the SemanticError returned, or "panic".
check_single_record(recs, id, dbg) ==
    IF id >= Len(recs) THEN "InternalError"
    ELSE IF At(recs, id).id # id THEN "IncorrectId"
    ELSE IF At(recs, id).stmt.kind = "Supposons" THEN check_Supposons(recs, id)
    ELSE IF At(recs, id).stmt.kind = "Donc" THEN check_Donc(recs, id, dbg)
    ELSE check_Simple(recs, id)

(***************************************************************************)
(* proof.rs: Proof and CheckUpResult                                       *)
(***************************************************************************)
NotChecked == [kind |-> "NotChecked", n |-> 0, errors |-> <<>>]

Valid == [kind |-> "Valid", n |-> 0, errors |-> <<>>]

ValidUntil(n) == [kind |-> "ValidUntil", n |-> n, errors |-> <<>>]

SemanticErrors(first_error, errors) ==
    [kind |-> "SemanticErrors", n |-> first_error, errors |-> errors]

\* check_loop leaving the loop at the first failing record.
RECURSIVE check_loop_first_only(_, _, _, _, _)
check_loop_first_only(recs, last, i, acc, dbg) ==
    IF i > last THEN acc
    ELSE LET e == check_single_record(recs, i, dbg) IN
         IF e = "panic" THEN [acc EXCEPT !.panic = TRUE]
         ELSE IF e = "Ok" THEN check_loop_first_only(recs, last, i + 1, acc, dbg)
         ELSE [acc EXCEPT !.until = i, !.erred = TRUE, !.errors = <<<<i, e>>>>]

\* The for loop of check_up_to from record i on: acc holds erred, until and
\* errors; panic tells that a check_single_record aborted the loop.
RECURSIVE check_loop(_, _, _, _, _)
check_loop(recs, last, i, acc, dbg) ==
    IF i > last THEN acc
    ELSE LET e == check_single_record(recs, i, dbg) IN
         IF e = "panic" THEN [acc EXCEPT !.panic = TRUE]
         ELSE IF e = "Ok" THEN check_loop(recs, last, i + 1, acc, dbg)
         ELSE check_loop(recs, last, i + 1,
                         [acc EXCEPT !.until = IF acc.erred THEN acc.until ELSE i,
                                     !.erred = TRUE,
                                     !.errors = Append(acc.errors, <<i, e>>)],
                         dbg)

\* check_up_to_valid without the comparison of id + 1 with the length.
check_up_to_valid_no_length(recs, id, acc) ==
    IF acc.erred THEN SemanticErrors(acc.until, acc.errors)
    ELSE Valid

\* check_up_to_valid that keeps the errors of the state it replaces when the
\* loop found none.
check_up_to_valid_errors_kept(recs, id, acc) ==
    IF acc.erred THEN SemanticErrors(acc.until, acc.errors)
    ELSE IF valid.kind = "SemanticErrors" THEN valid
    ELSE IF id + 1 = Len(recs) THEN Valid
    ELSE ValidUntil(id + 1)

\* check_up_to_valid with ValidUntil(id) for ValidUntil(id + 1).
check_up_to_valid_until_id(recs, id, acc) ==
    IF acc.erred THEN SemanticErrors(acc.until, acc.errors)
    ELSE IF id + 1 = Len(recs) THEN Valid
    ELSE ValidUntil(id)

\* The value check_up_to(id) assigns to self.valid, for id < records.len().
check_up_to_valid(recs, id, acc) ==
    IF acc.erred THEN SemanticErrors(acc.until, acc.errors)
    ELSE IF id + 1 = Len(recs) THEN Valid
    ELSE ValidUntil(id + 1)

\* The records of the proofs: the scenarios of the specification and records
\* that pass or fail at each position.
a == Variable("a")

b == Variable("b")

c == Variable("c")

RecordSet ==
    { Record(0, <<0>>, "Supposons", a, Hyp),
      Record(0, <<0>>, "Supposons", a, IImpl),
      Record(0, <<UsizeMax>>, "Simple", a, Hyp),
      Record(1, <<0>>, "Simple", a, Hyp),
      Record(1, <<0, 1>>, "Supposons", Implies(a, b), Hyp),
      Record(1, <<>>, "Donc", Implies(a, a), IImpl),
      Record(1, <<0>>, "Simple", Or(a, a), Justif("IOrL", <<0>>, a)),
      Record(2, <<0, 2>>, "Simple", a, Hyp),
      Record(2, <<>>, "Donc", Implies(a, a), IImpl),
      Record(2, <<0, 1>>, "Simple", b, Justif("EImpl", <<0, 1>>, <<>>)),
      Record(2, <<0, 1>>, "Simple", c, Justif("EImpl", <<0, 1>>, <<>>)),
      Record(2, <<>>, "Donc", Implies(a, Or(a, a)), IImpl),
      Record(2, <<0>>, "Simple", Or(a, a), Justif("IOrL", <<0>>, a)) }

\* Proof::read_proof returns Ok: one record or more, not checked.
Init ==
    /\ debug_assertions \in BOOLEAN
    /\ NoRead
    /\ \E r \in RecordSet : records = <<r>>
    /\ valid = NotChecked
    /\ call = "read_proof"
    /\ arg = 0
    /\ ret = "Ok"

\* add_record that leaves the state Valid.
add_record_valid_kept(record) ==
    /\ ret # "panic"
    /\ Len(records) < MaxRecords
    /\ valid' = valid
    /\ records' = Append(records, record)
    /\ call' = "add_record"
    /\ arg' = 0
    /\ ret' = "Ok"
    /\ UNCHANGED <<debug_assertions, parser_vars>>

\* add_record that puts the record before the records held.
add_record_first(record) ==
    /\ ret # "panic"
    /\ Len(records) < MaxRecords
    /\ valid' = IF valid.kind = "Valid" THEN ValidUntil(Len(records)) ELSE valid
    /\ records' = <<record>> \o records
    /\ call' = "add_record"
    /\ arg' = 0
    /\ ret' = "Ok"
    /\ UNCHANGED <<debug_assertions, parser_vars>>

add_record(record) ==
    /\ ret # "panic"
    /\ Len(records) < MaxRecords
    /\ valid' = IF valid.kind = "Valid" THEN ValidUntil(Len(records)) ELSE valid
    /\ records' = Append(records, record)
    /\ call' = "add_record"
    /\ arg' = 0
    /\ ret' = "Ok"
    /\ UNCHANGED <<debug_assertions, parser_vars>>

\* check_up_to_body that goes back to NotChecked when id is not an index.
check_up_to_body_err_resets(id) ==
    IF id >= Len(records)
    THEN /\ ret' = "Err"
         /\ valid' = NotChecked
    ELSE LET acc == check_loop(records, id, 0,
                               [erred |-> FALSE, until |-> 0, errors |-> <<>>, panic |-> FALSE],
                               debug_assertions)
         IN  IF acc.panic
             THEN /\ ret' = "panic"
                  /\ UNCHANGED valid
             ELSE /\ ret' = "Ok"
                  /\ valid' = check_up_to_valid(records, id, acc)

\* What check_up_to(id) does to valid and returns.
check_up_to_body(id) ==
    IF id >= Len(records)
    THEN /\ ret' = "Err"
         /\ UNCHANGED valid
    ELSE LET acc == check_loop(records, id, 0,
                               [erred |-> FALSE, until |-> 0, errors |-> <<>>, panic |-> FALSE],
                               debug_assertions)
         IN  IF acc.panic
             THEN /\ ret' = "panic"
                  /\ UNCHANGED valid
             ELSE /\ ret' = "Ok"
                  /\ valid' = check_up_to_valid(records, id, acc)

check_up_to(id) ==
    /\ ret # "panic"
    /\ check_up_to_body(id)
    /\ call' = "check_up_to"
    /\ arg' = id
    /\ UNCHANGED <<debug_assertions, parser_vars, records>>

\* check that checks the first record only.
check_first_record ==
    /\ ret # "panic"
    /\ IF records # <<>>
       THEN /\ check_up_to_body(0)
            /\ arg' = 0
       ELSE /\ ret' = "Ok"
            /\ arg' = 0
            /\ UNCHANGED valid
    /\ call' = "check"
    /\ UNCHANGED <<debug_assertions, parser_vars, records>>

check ==
    /\ ret # "panic"
    /\ IF records # <<>>
       THEN /\ check_up_to_body(Len(records) - 1)
            /\ arg' = Len(records) - 1
       ELSE /\ ret' = "Ok"
            /\ arg' = 0
            /\ UNCHANGED valid
    /\ call' = "check"
    /\ UNCHANGED <<debug_assertions, parser_vars, records>>

Next ==
    \/ \E r \in RecordSet : add_record(r)
    \/ \E id \in 0..MaxRecords : check_up_to(id)
    \/ check

Spec == Init /\ [][Next]_vars

(***************************************************************************)
(* Claims about check_up_to and check                                      *)
(***************************************************************************)
\* Record i passes its check.
Passes(recs, i) == check_single_record(recs, i, debug_assertions) = "Ok"

\* The records of 0..=k that do not pass.
Failing(recs, k) == {i \in 0..k : ~Passes(recs, i)}

\* C4: after check_up_to(k) with k < N, the state is Valid if records 0..=k
\* all pass and k + 1 = N, ValidUntil(k + 1) if they all pass and k + 1 < N,
\* SemanticErrors if one of them fails, and it is the state the same call
\* computes on records 0..=k alone when it is SemanticErrors.
C4_CheckUpToVerdict ==
    (call = "check_up_to" /\ arg < Len(records)) =>
        /\ ret = "Ok"
        /\ IF Failing(records, arg) = {}
           THEN valid = (IF arg + 1 = Len(records) THEN Valid ELSE ValidUntil(arg + 1))
           ELSE /\ valid.kind = "SemanticErrors"
                /\ valid.errors =
                       check_loop(SubSeq(records, 1, arg + 1), arg, 0,
                                  [erred |-> FALSE, until |-> 0, errors |-> <<>>,
                                   panic |-> FALSE],
                                  debug_assertions).errors

\* C5: when check_up_to(k) ends in SemanticErrors, errors holds one entry for
\* every record of 0..=k that fails, with the error of that record, none for a
\* record that passes, in strictly increasing order of index, and first_error
\* is the smallest failing index, the index of the first entry.
C5_ErrorsListEveryFailure ==
    (call \in {"check_up_to", "check"} /\ ret = "Ok" /\ valid.kind = "SemanticErrors") =>
        LET errs == valid.errors
            failing == Failing(records, arg)
        IN  /\ Len(errs) = Cardinality(failing)
            /\ \A j \in 1..Len(errs) :
                   /\ errs[j][1] \in failing
                   /\ errs[j][2] = check_single_record(records, errs[j][1], debug_assertions)
            /\ \A j \in 1..(Len(errs) - 1) : errs[j][1] < errs[j + 1][1]
            /\ failing # {}
            /\ valid.n = Min(failing)
            /\ valid.n = errs[1][1]

\* C5 witness: a check_up_to that ended with two errors around a record that
\* passes.
C5_Witness ==
    /\ call = "check_up_to"
    /\ ret = "Ok"
    /\ valid.kind = "SemanticErrors"
    /\ Len(valid.errors) = 2
    /\ ~Passes(records, 0)
    /\ Passes(records, 1)
    /\ ~Passes(records, 2)

C7Proof ==
    << Record(0, <<0>>, "Supposons", a, Hyp),
       Record(1, <<0>>, "Simple", a, Hyp),
       Record(2, <<>>, "Donc", Implies(a, a), IImpl) >>

\* C7 as stated: check() finds the three-record proof of a => a Valid.
C7_Original == (records = C7Proof /\ call = "check") => valid = Valid

\* C7 amended: check() ends on the three-record proof in SemanticErrors with
\* first_error = 1 and the one error (1, HypNotSimple).
C7_HypNotSimple ==
    (records = C7Proof /\ call = "check") =>
        (ret = "Ok" /\ valid = SemanticErrors(1, << <<1, "HypNotSimple">> >>))

C7_Witness == records = C7Proof /\ call = "check" /\ ret = "Ok"

C8Proof(f) ==
    << Record(0, <<0>>, "Supposons", a, Hyp),
       Record(1, <<0, 1>>, "Supposons", Implies(a, b), Hyp),
       Record(2, <<0, 1>>, "Simple", f, Justif("EImpl", <<0, 1>>, <<>>)) >>

\* C8: check() finds the proof of b by EImpl 0 1 Valid, and with c in place of
\* b it reports record 2 failing with EImplImplNotMatching.
C8_EImplScenario ==
    /\ (records = C8Proof(b) /\ call = "check") => valid = Valid
    /\ (records = C8Proof(c) /\ call = "check") =>
           (valid.kind = "SemanticErrors"
            /\ valid.errors = << <<2, "EImplImplNotMatching">> >>)

(***************************************************************************)
(* check_single_record applied to bounded proofs                           *)
(***************************************************************************)
Positions3 == {<<x, y, z>> : x \in 0..MaxBefore, y \in 0..MaxBefore, z \in 0..MaxBefore}

Positions2 == {<<x, y>> : x \in 0..MaxBefore, y \in 0..MaxBefore}

Positions1 == {<<x>> : x \in 0..MaxBefore}

\* records is a proof of at most MaxBefore Hypothesis records with the
\* contexts of C and the formulas of F, then one record of kind kind with a
\* context of CT, a formula of G and a justification of J, whose id is its
\* index or, with any_id, any index.
ProofOf(C, F, kind, CT, G, J, any_id) ==
    \E n \in 0..MaxBefore :
        \E cf \in [1..n -> C \X F] :
            \E ct \in CT, g \in G, j \in J :
                \E id \in (IF any_id THEN 0..MaxBefore ELSE {n}) :
                    records =
                        Append([k \in 1..n |-> Record(k - 1, cf[k][1], "Supposons",
                                                      cf[k][2], Hyp)],
                               Record(id, ct, kind, g, j))

CitingRules == {"IOrL", "IOrR", "EOr", "IAnd", "EAndL", "EAndR", "EImpl", "Efq", "Raa"}

Ctxts == {<<>>, <<0>>, <<0, 1>>}

IOrProofs ==
    ProofOf(Ctxts, {a, b}, "Simple", Ctxts, {Or(a, b), Or(b, a), a},
            {Justif(r, p, f) : r \in {"IOrL", "IOrR"}, p \in Positions1, f \in {a, b}},
            FALSE)

EOrProofs ==
    ProofOf({<<>>, <<0>>}, {Implies(a, b), Or(a, a), a}, "Simple", {<<>>, <<0>>}, {a, b},
            {Justif("EOr", p, <<>>) : p \in Positions3}, FALSE)

IAndProofs ==
    ProofOf({<<>>, <<0>>, <<1>>}, {a, b}, "Simple", {<<>>, <<0>>, <<1>>},
            {And(a, b), And(a, a), a},
            {Justif("IAnd", p, <<>>) : p \in Positions2}, FALSE)

EAndProofs ==
    ProofOf(Ctxts, {And(a, b), a}, "Simple", Ctxts, {a, b},
            {Justif(r, p, <<>>) : r \in {"EAndL", "EAndR"}, p \in Positions1}, FALSE)

EImplProofs ==
    ProofOf(Ctxts \cup {<<1>>}, {a, b, Implies(a, b)}, "Simple", Ctxts \cup {<<1>>}, {a, b},
            {Justif("EImpl", p, <<>>) : p \in Positions2}, FALSE)

EfqRaaProofs ==
    ProofOf(Ctxts, {Bottom, Not(Not(a)), Not(a)}, "Simple", Ctxts, {a, b},
            {Justif(r, p, <<>>) : r \in {"Efq", "Raa"}, p \in Positions1}
                \cup {Hyp, IImpl},
            FALSE)

SupposonsProofs ==
    ProofOf(Ctxts \cup {<<1>>}, {a}, "Supposons",
            {<<>>, <<0>>, <<1>>, <<2>>, <<0, 1>>, <<0, 2>>, <<1, 2>>,
             <<0, 0>>, <<0, 1, 2>>, <<0, 2, 1>>},
            {a}, {Hyp, IImpl, Justif("Efq", <<0>>, <<>>)}, TRUE)

DoncProofs ==
    ProofOf(Ctxts \cup {<<1>>, <<UsizeMax>>}, {a, b}, "Donc", {<<>>, <<0>>, <<1>>},
            {Implies(a, a), Implies(a, b), Implies(b, a), Or(a, b)},
            {IImpl, Hyp}, TRUE)

\* Proofs whose last record is a Simple record of any id.
IncorrectIdProofs ==
    ProofOf({<<>>, <<0>>}, {a}, "Simple", {<<>>, <<0>>, <<0, 2>>}, {a},
            {Hyp, Justif("Efq", <<0>>, <<>>)}, TRUE)

\* Proofs of three records A => C1, B => C2 and A' \/ B' without hypothesis,
\* then a Simple record justified by EOr.
EOrThreeProofs ==
    \E A \in {a, b}, B \in {a, b}, C1 \in {a, b}, C2 \in {a, b} :
        \E A2 \in {a, b}, B2 \in {a, b}, f \in {a, b} :
            \E p \in {<<0, 1, 2>>, <<1, 0, 2>>, <<0, 0, 2>>, <<2, 1, 0>>} :
                records = << Record(0, <<>>, "Supposons", Implies(A, C1), Hyp),
                             Record(1, <<>>, "Supposons", Implies(B, C2), Hyp),
                             Record(2, <<>>, "Supposons", Or(A2, B2), Hyp),
                             Record(3, <<>>, "Simple", f, Justif("EOr", p, <<>>)) >>

InitRecord ==
    /\ debug_assertions \in BOOLEAN
    /\ NoRead
    /\ \/ IOrProofs
       \/ IncorrectIdProofs
       \/ EOrThreeProofs
       \/ EOrProofs
       \/ IAndProofs
       \/ EAndProofs
       \/ EImplProofs
       \/ EfqRaaProofs
       \/ SupposonsProofs
       \/ DoncProofs
    /\ valid = NotChecked
    /\ call = "none"
    /\ arg = 0
    /\ ret = "none"

\* check_single_record(id) on the proof, once.
apply_check_single_record(id) ==
    /\ call = "none"
    /\ call' = "check_single_record"
    /\ arg' = id
    /\ ret' = check_single_record(records, id, debug_assertions)
    /\ UNCHANGED <<debug_assertions, parser_vars, records, valid>>

NextRecord == \E id \in 0..(MaxBefore + 1) : apply_check_single_record(id)

SpecRecord == InitRecord /\ [][NextRecord]_vars

(***************************************************************************)
(* Claims about check_single_record                                        *)
(***************************************************************************)
\* check_single_record(arg) has returned for the record of index arg.
Checked == call = "check_single_record" /\ arg < Len(records)

IsPrefix(x, y) == Len(x) <= Len(y) /\ \A k \in 1..Len(x) : x[k] = y[k]

\* C6: a Simple record of index i whose justification cites records passes
\* only if every cited index j is below i and the context of record i is a
\* prefix of the context of record j.
C6_CitedBelowAndCtxtPrefix ==
    (/\ Checked
     /\ At(records, arg).stmt.kind = "Simple"
     /\ At(records, arg).justif.rule \in CitingRules
     /\ ret = "Ok") =>
        \A k \in 1..Len(At(records, arg).justif.pos) :
            LET j == At(records, arg).justif.pos[k] IN
            /\ j < arg
            /\ IsPrefix(At(records, arg).ctxt, At(records, j).ctxt)

\* C6 witness: a citing record passed whose cited record has a longer context.
C6_Witness ==
    /\ Checked
    /\ At(records, arg).stmt.kind = "Simple"
    /\ At(records, arg).justif.rule \in CitingRules
    /\ ret = "Ok"
    /\ \E k \in 1..Len(At(records, arg).justif.pos) :
           Len(At(records, At(records, arg).justif.pos[k]).ctxt)
               > Len(At(records, arg).ctxt)

\* The conditions of C9 on the Donc record of index i.
DoncConditions(recs, i) ==
    LET rec == At(recs, i) IN
    /\ rec.justif.rule = "IImpl"
    /\ i > 0
    /\ Len(At(recs, i - 1).ctxt) = Len(rec.ctxt) + 1
    /\ IsPrefix(rec.ctxt, At(recs, i - 1).ctxt)
    /\ Last(At(recs, i - 1).ctxt) + 2 <= i
    /\ rec.stmt.formula[1] = "Implies"
    /\ Left(rec.stmt.formula) = At(recs, Last(At(recs, i - 1).ctxt)).stmt.formula
    /\ Right(rec.stmt.formula) = At(recs, i - 1).stmt.formula

TwoRecordProof ==
    << Record(0, <<0>>, "Supposons", a, Hyp),
       Record(1, <<>>, "Donc", Implies(a, a), IImpl) >>

\* C9: a Donc record of index i whose id is i passes if and only if it is
\* justified by IImpl, i > 0, the previous context is its context with one
\* more element h, h + 2 <= i, and its formula is Implies(A, B) with A the
\* formula of record h and B the formula of record i - 1; the Donc of the
\* two-record proof Supposons a, Donc a => a fails with DoncHypDifCons.
C9_DoncPassesIff ==
    /\ (Checked /\ At(records, arg).id = arg /\ At(records, arg).stmt.kind = "Donc") =>
           (ret = "Ok" <=> DoncConditions(records, arg))
    /\ (Checked /\ records = TwoRecordProof /\ arg = 1) => ret = "DoncHypDifCons"

\* C9 witness: a Donc record passed.
C9_Witness ==
    /\ Checked
    /\ At(records, arg).stmt.kind = "Donc"
    /\ ret = "Ok"

\* C10: a Supposons record of index i whose id is i passes if and only if it
\* is justified by Hyp and its context is <<0>> when i = 0, the previous
\* record's context with i appended when i > 0.
C10_SupposonsPassesIff ==
    (Checked /\ At(records, arg).id = arg /\ At(records, arg).stmt.kind = "Supposons") =>
        (ret = "Ok" <=>
            /\ At(records, arg).justif.rule = "Hyp"
            /\ At(records, arg).ctxt =
                   IF arg = 0 THEN <<0>> ELSE Append(At(records, arg - 1).ctxt, arg))

\* C10 witness: a Supposons record passed under an open hypothesis.
C10_Witness ==
    /\ Checked
    /\ arg > 0
    /\ At(records, arg).stmt.kind = "Supposons"
    /\ Len(At(records, arg).ctxt) >= 2
    /\ ret = "Ok"

(***************************************************************************)
(* A proof built record by record, checked after each record               *)
(***************************************************************************)
\* The contexts given to a record that follows a record of context prev:
\* the prefixes of prev, each with or without one more element, and every
\* context of at most two elements.
CtxtChoices(prev) ==
    LET prefixes == {SubSeq(prev, 1, n) : n \in 0..Len(prev)} IN
    prefixes
        \cup {Append(p, e) : p \in prefixes, e \in 0..MaxSession}
        \cup {<<e>> : e \in 0..MaxSession}
        \cup {<<e, f>> : e \in 0..MaxSession, f \in 0..MaxSession}

\* The records given as record Len(recs): a Supposons of a, a Simple record
\* that weakens the previous formula by IOrL, a Donc of a => the previous
\* formula, each with every context of CtxtChoices.
SessionRecords(recs) ==
    LET i == Len(recs)
        prev == IF i = 0 THEN <<>> ELSE At(recs, i - 1).ctxt
        prevf == IF i = 0 THEN a ELSE At(recs, i - 1).stmt.formula
        cited == IF i = 0 THEN 0 ELSE i - 1
    IN  UNION { { Record(i, ct, "Supposons", a, Hyp),
                  Record(i, ct, "Simple", Or(a, prevf), Justif("IOrL", <<cited>>, a)),
                  Record(i, ct, "Donc", Implies(a, prevf), IImpl) } :
                ct \in CtxtChoices(prev) }

\* Proof::read_proof returns Ok on one line.
InitSession ==
    /\ debug_assertions \in BOOLEAN
    /\ NoRead
    /\ \E r \in SessionRecords(<<>>) : records = <<r>>
    /\ valid = NotChecked
    /\ call = "read_proof"
    /\ arg = 0
    /\ ret = "Ok"

\* Proof::add_record, called once the proof so far is found Valid.
session_add_record(record) ==
    /\ valid.kind = "Valid"
    /\ Len(records) < MaxSession
    /\ valid' = IF valid.kind = "Valid" THEN ValidUntil(Len(records)) ELSE valid
    /\ records' = Append(records, record)
    /\ call' = "add_record"
    /\ arg' = 0
    /\ ret' = "Ok"
    /\ UNCHANGED <<debug_assertions, parser_vars>>

NextSession ==
    \/ \E r \in SessionRecords(records) : session_add_record(r)
    \/ check

SpecSession == InitSession /\ [][NextSession]_vars

(***************************************************************************)
(* Claims about the contexts of a Valid proof                              *)
(***************************************************************************)
StrictlyIncreasing(s) == \A i, j \in 1..Len(s) : i < j => s[i] < s[j]

\* C11 as stated: in a proof that check() finds Valid, the context of every
\* record is strictly increasing and each of its elements is below the
\* record's id.
C11_CtxtBelowId ==
    (call = "check" /\ valid = Valid) =>
        \A k \in 1..Len(records) :
            /\ StrictlyIncreasing(records[k].ctxt)
            /\ \A e \in 1..Len(records[k].ctxt) : records[k].ctxt[e] < records[k].id

\* C11 amended: in a proof that check() finds Valid, the context of every
\* record is strictly increasing, each of its elements is at most the
\* record's id, and an element equal to the id is the last element of the
\* context of a Supposons record.
C11_CtxtAtMostId ==
    (call = "check" /\ valid = Valid) =>
        \A k \in 1..Len(records) :
            /\ StrictlyIncreasing(records[k].ctxt)
            /\ \A e \in 1..Len(records[k].ctxt) :
                   /\ records[k].ctxt[e] <= records[k].id
                   /\ records[k].ctxt[e] = records[k].id =>
                          (records[k].stmt.kind = "Supposons" /\ e = Len(records[k].ctxt))

\* C11 witness: check() found Valid a proof with a record under two
\* hypotheses.
C11_Witness ==
    /\ call = "check"
    /\ valid = Valid
    /\ \E k \in 1..Len(records) : Len(records[k].ctxt) >= 2

\* The context tracked over the first n records: a Supposons pushes its
\* index, a Donc pops the last entry.
RECURSIVE Walk(_, _)
Walk(recs, n) ==
    IF n = 0 THEN <<>>
    ELSE LET t == Walk(recs, n - 1) IN
         IF recs[n].stmt.kind = "Supposons" THEN Append(t, n - 1)
         ELSE IF recs[n].stmt.kind = "Donc" THEN Front(t)
         ELSE t

\* C12: in a proof that check() finds Valid, the context of record i is a
\* prefix of the context tracked over records 0..i, and no Donc record is
\* reached with an empty tracked context.
C12_CtxtPrefixOfTracked ==
    (call = "check" /\ valid = Valid) =>
        \A i \in 0..(Len(records) - 1) :
            /\ IsPrefix(At(records, i).ctxt, Walk(records, i + 1))
            /\ At(records, i).stmt.kind = "Donc" => Walk(records, i) # <<>>

\* C12 witness: check() found Valid a proof with a record after a Donc.
C12_Witness ==
    /\ call = "check"
    /\ valid = Valid
    /\ \E i \in 1..(Len(records) - 1) : records[i].stmt.kind = "Donc"

(***************************************************************************)
(* Claims about the state of a proof over add_record, check_up_to, check   *)
(***************************************************************************)
\* C13: a step that changes records is an add_record that appends one record
\* after the records held, which it leaves as they were; it makes a Valid
\* state ValidUntil(n), n the number of records held before, and leaves any
\* other state as it was.
C13_AddRecordFrame ==
    [][records' # records =>
          /\ call' = "add_record"
          /\ Len(records') = Len(records) + 1
          /\ SubSeq(records', 1, Len(records)) = records
          /\ valid' = IF valid = Valid THEN ValidUntil(Len(records)) ELSE valid]_vars

\* C13 witness: add_record has made a Valid state ValidUntil(n).
C13_Witness ==
    /\ call = "add_record"
    /\ valid = ValidUntil(Len(records) - 1)
    /\ \A i \in 0..(Len(records) - 2) : Passes(records, i)

\* C14: a Valid state means every record passes; ValidUntil(k) means
\* 1 <= k < N and records 0..k-1 pass; SemanticErrors means first_error < N
\* and record first_error fails.
C14_StateIsSound ==
    /\ valid.kind = "Valid" => \A i \in 0..(Len(records) - 1) : Passes(records, i)
    /\ valid.kind = "ValidUntil" =>
           /\ 1 <= valid.n
           /\ valid.n < Len(records)
           /\ \A i \in 0..(valid.n - 1) : Passes(records, i)
    /\ valid.kind = "SemanticErrors" =>
           /\ valid.n < Len(records)
           /\ ~Passes(records, valid.n)

\* C14 witness: the state is ValidUntil(k) on a proof whose record k fails.
C14_Witness ==
    /\ valid.kind = "ValidUntil"
    /\ valid.n < Len(records)
    /\ ~Passes(records, valid.n)

\* The failing records of 0..=k with their errors, in the order of the
\* indices.
RECURSIVE ErrorsUpTo(_, _)
ErrorsUpTo(recs, k) ==
    IF k < 0 THEN <<>>
    ELSE LET e == check_single_record(recs, k, debug_assertions) IN
         IF e = "Ok" THEN ErrorsUpTo(recs, k - 1)
         ELSE Append(ErrorsUpTo(recs, k - 1), <<k, e>>)

\* The verdict on records 0..=k as a function of the records and k alone.
Verdict(recs, k) ==
    LET errs == ErrorsUpTo(recs, k) IN
    IF errs = <<>>
    THEN (IF k + 1 = Len(recs) THEN Valid ELSE ValidUntil(k + 1))
    ELSE SemanticErrors(errs[1][1], errs)

\* C15: a check() or check_up_to(k) that returns Ok leaves the records as
\* they were and writes the verdict that the records and k determine,
\* whatever the state before the call.
C15_VerdictFromRecordsOnly ==
    [][(call' \in {"check", "check_up_to"} /\ ret' = "Ok") =>
          /\ records' = records
          /\ arg' < Len(records) => valid' = Verdict(records, arg')]_vars

\* C15 witness: check_up_to(0) has written ValidUntil(1) on a proof whose
\* record 1 fails.
C15_Witness ==
    /\ call = "check_up_to"
    /\ arg = 0
    /\ ret = "Ok"
    /\ valid = ValidUntil(1)
    /\ Len(records) >= 2
    /\ ~Passes(records, 1)

\* C16: a check_up_to(k') with k' < k that follows, on the same records, a
\* check_up_to(k) that ended without SemanticErrors returns Ok and writes
\* ValidUntil(k' + 1).
C16_SmallerCheckHasNoError ==
    [][(/\ call \in {"check", "check_up_to"}
        /\ ret = "Ok"
        /\ arg < Len(records)
        /\ valid.kind # "SemanticErrors"
        /\ call' = "check_up_to"
        /\ arg' < arg
        /\ records' = records) =>
          (ret' = "Ok" /\ valid' = ValidUntil(arg' + 1))]_vars

\* C16 witness: check_up_to(0) has written ValidUntil(1) on a proof whose
\* records 0 and 1 pass.
C16_Witness ==
    /\ call = "check_up_to"
    /\ arg = 0
    /\ ret = "Ok"
    /\ valid = ValidUntil(1)
    /\ Len(records) >= 2
    /\ Passes(records, 1)

(***************************************************************************)
(* Claims about the grouping of operators by Formula::read                 *)
(***************************************************************************)
\* Variables joined by Implies, two of them or more.
ImpliesChain(s) ==
    /\ Len(s) >= 3
    /\ Len(s) % 2 = 1
    /\ \A i \in 1..Len(s) : IF i % 2 = 1 THEN s[i] \in Variables ELSE s[i] = "Implies"

\* Implies(x1, Implies(x2, ... Implies(x(n-1), xn))) of the chain s.
RECURSIVE RightNested(_)
RightNested(s) ==
    IF Len(s) = 1 THEN s
    ELSE <<"Implies", s[1]>> \o RightNested(SubSeq(s, 3, Len(s)))

\* C17: in a debug build, once Formula::read has returned on variables
\* joined by Implies, it has returned Ok with the implications nested to the
\* right.
C17_ImpliesRightAssociative ==
    (debug_assertions /\ pc = "done" /\ ImpliesChain(lexemes))
        => (result = "Ok" /\ parsed = RightNested(lexemes))

\* x L y R z: three variables joined by two binary operators.
TwoOperators(s) ==
    /\ Len(s) = 5
    /\ s[1] \in Variables /\ s[3] \in Variables /\ s[5] \in Variables
    /\ s[2] \in BinaryOperators /\ s[4] \in BinaryOperators

\* C18: once Formula::read has returned on x L y R z, it has returned Ok with
\* R(L(x, y), z) when cmp(L, R) = More and with L(x, R(y, z)) when
\* cmp(L, R) = Less; on Not Not a it has returned Ok with Not(Not(a)).
C18_TwoOperatorsGroupByCmp ==
    /\ (pc = "done" /\ TwoOperators(lexemes)) =>
           /\ result = "Ok"
           /\ parsed = IF cmp(lexemes[2], lexemes[4]) = "More"
                       THEN <<lexemes[4], lexemes[2], lexemes[1], lexemes[3], lexemes[5]>>
                       ELSE <<lexemes[2], lexemes[1], lexemes[4], lexemes[3], lexemes[5]>>
    /\ (pc = "done" /\ lexemes = <<"Not", "Not", "a">>) =>
           (result = "Ok" /\ parsed = Not(Not(Variable("a"))))

\* C18 in a debug build.
C18_Debug == debug_assertions => C18_TwoOperatorsGroupByCmp

(***************************************************************************)
(* Formula::read on inputs with parenthesised groups                       *)
(***************************************************************************)
\* s is the beginning of an input of the pattern pat, a sequence of sets of
\* lexemes.
PatternPrefix(s, pat) == Len(s) <= Len(pat) /\ \A i \in 1..Len(s) : s[i] \in pat[i]

\* x p (y q z)
GroupRight ==
    <<Variables, BinaryOperators, {"OpeningParenthesis"}, Variables, BinaryOperators,
      Variables, {"ClosingParenthesis"}>>

\* (x p y) q z
GroupLeft ==
    <<{"OpeningParenthesis"}, Variables, BinaryOperators, Variables,
      {"ClosingParenthesis"}, BinaryOperators, Variables>>

\* Not (y q z)
GroupNot ==
    <<{"Not"}, {"OpeningParenthesis"}, Variables, BinaryOperators, Variables,
      {"ClosingParenthesis"}>>

\* The atoms of the fully parenthesised inputs.
PrintedAtoms == {"a", "Top", "Bottom"}

\* What a fully parenthesised input still needs after s, the next need last:
\* "F" a formula, "body" the inside of a group, "op" a binary operator,
\* "close" a closing parenthesis; <<"bad">> when s begins no such input.
RECURSIVE Expect(_)
Expect(s) ==
    IF s = <<>> THEN <<"F">>
    ELSE LET e == Expect(Front(s))
             l == Last(s)
         IN  IF e = <<>> \/ e = <<"bad">> THEN <<"bad">>
             ELSE LET top == Last(e)
                      rest == Front(e)
                  IN  IF top = "F"
                      THEN (IF l \in PrintedAtoms THEN rest
                            ELSE IF l = "OpeningParenthesis" THEN rest \o <<"close", "body">>
                            ELSE <<"bad">>)
                      ELSE IF top = "body"
                      THEN (IF l = "Not" THEN Append(rest, "F")
                            ELSE IF l \in PrintedAtoms THEN rest \o <<"F", "op">>
                            ELSE IF l = "OpeningParenthesis"
                            THEN rest \o <<"F", "op", "close", "body">>
                            ELSE <<"bad">>)
                      ELSE IF top = "op"
                      THEN (IF l \in BinaryOperators THEN rest ELSE <<"bad">>)
                      ELSE (IF l = "ClosingParenthesis" THEN rest ELSE <<"bad">>)

\* s is the beginning of a fully parenthesised formula of depth MaxDepth at
\* most.
PrintedPrefix(s) ==
    /\ Expect(s) # <<"bad">>
    /\ Cardinality({i \in 1..Len(Expect(s)) : Expect(s)[i] = "close"}) <= MaxDepth

GroupInput(s) ==
    \/ PatternPrefix(s, GroupRight)
    \/ PatternPrefix(s, GroupLeft)
    \/ PatternPrefix(s, GroupNot)
    \/ PrintedPrefix(s)

read_group_lexeme(l) == read_lexeme_in(l, GroupInput(Append(lexemes, l)))

NextGroup ==
    \/ \E l \in Lexemes : read_group_lexeme(l)
    \/ eat_break
    \/ eat_iteration
    \/ eat_error
    \/ end_of_input
    \/ read_return

SpecGroup == InitRead /\ [][NextGroup]_vars

\* s is a whole input of the pattern pat.
Matches(s, pat) == Len(s) = Len(pat) /\ PatternPrefix(s, pat)

\* C19: once Formula::read has returned on x p (y q z) it has returned Ok
\* with p(x, q(y, z)), on (x p y) q z with q(p(x, y), z), and on Not (y q z)
\* with Not(q(y, z)).
C19_GroupIsOneOperand ==
    pc = "done" =>
        /\ Matches(lexemes, GroupRight) =>
               (result = "Ok" /\ parsed = <<lexemes[2], lexemes[1], lexemes[5],
                                            lexemes[4], lexemes[6]>>)
        /\ Matches(lexemes, GroupLeft) =>
               (result = "Ok" /\ parsed = <<lexemes[6], lexemes[3], lexemes[2],
                                            lexemes[4], lexemes[7]>>)
        /\ Matches(lexemes, GroupNot) =>
               (result = "Ok" /\ parsed = <<"Not", lexemes[4], lexemes[3], lexemes[5]>>)

\* C19 in a debug build.
C19_Debug == debug_assertions => C19_GroupIsOneOperand

\* The formula f printed with every compound sub-formula in parentheses.
RECURSIVE PrintFormula(_)
PrintFormula(f) ==
    IF f[1] \in Atoms THEN f
    ELSE IF f[1] = "Not"
    THEN <<"OpeningParenthesis", "Not">> \o PrintFormula(Inner(f)) \o <<"ClosingParenthesis">>
    ELSE <<"OpeningParenthesis">> \o PrintFormula(Left(f)) \o <<f[1]>>
             \o PrintFormula(Right(f)) \o <<"ClosingParenthesis">>

\* C20: once Formula::read has returned on a fully parenthesised formula, it
\* has returned Ok with the formula whose print the input is.
C20_PrintThenReadIsIdentity ==
    (pc = "done" /\ Expect(lexemes) = <<>>) =>
        (result = "Ok" /\ PrintFormula(parsed) = lexemes)

\* C20 in a debug build.
C20_Debug == debug_assertions => C20_PrintThenReadIsIdentity

(***************************************************************************)
(* Claims about the errors of Formula::read                                *)
(***************************************************************************)
\* The number of parentheses open after s, or -1 once a closing parenthesis
\* has come with none open.
RECURSIVE OpenAfter(_)
OpenAfter(s) ==
    IF s = <<>> THEN 0
    ELSE LET d == OpenAfter(Front(s)) IN
         IF d < 0 THEN d
         ELSE IF Last(s) = "OpeningParenthesis" THEN d + 1
         ELSE IF Last(s) = "ClosingParenthesis" THEN d - 1
         ELSE d

\* C21: in a debug build, once Formula::read has returned on an input whose
\* parentheses are unbalanced, it has returned an error: not a formula, and
\* no panic.
C21_UnbalancedIsRejected ==
    (debug_assertions /\ pc = "done" /\ OpenAfter(lexemes) # 0)
        => result \notin {"Ok", "panic"}

\* C22: once Formula::read has returned on the empty input, it has returned
\* the error AFormulaIsMissing.
C22_EmptyInputIsMissingFormula ==
    (pc = "done" /\ lexemes = <<>>) => result = "AFormulaIsMissing"

InternalErrors ==
    {"InternalError0", "InternalError1", "InternalError2", "InternalError3", "InternalError4"}

\* C23: Formula::read never returns InternalError(n), and no iteration of
\* eat finds no operator in state Operator in regime Eat, two operators in
\* state BeginingANewGroup, or an empty formulas stack in state Constant.
C23_NoInternalError ==
    /\ result \notin InternalErrors
    /\ (pc \in {"eat", "end_eat"} /\ regime # "Stop") =>
           /\ ~(regime = "Eat" /\ get_last_two_ops_from_stack(stack).n = 0
                   /\ state = "Operator")
           /\ ~(get_last_two_ops_from_stack(stack).n = 2 /\ state = "BeginingANewGroup")
           /\ ~(state = "Constant" /\ formulas = <<>>)

\* C23 witness: an iteration of eat in regime Eat is about to run in state
\* Operator under an open parenthesis.
C23_Witness ==
    /\ pc = "eat"
    /\ regime = "Eat"
    /\ state = "Operator"
    /\ Len(stack) >= 2
    /\ stack[Len(stack) - 1] = "Parenthesis"

\* Formula::read runs to its end: the for loop and the loop of eat keep
\* taking their next step.
FairSpecRead == SpecRead /\ WF_vars(NextRead)

\* C24: no iteration of the loop of eat that goes on leaves the ops stack,
\* the regime and the state as it found them: an iteration sets the regime to
\* Stop, returns, or takes an operator off the ops stack.
C24_EatIterationProgresses ==
    [][(pc \in {"eat", "end_eat"} /\ pc' = pc) =>
          <<stack', regime', state'>> # <<stack, regime, state>>]_vars

\* C24 in a debug build.
C24_DebugProgresses ==
    [][(debug_assertions /\ pc \in {"eat", "end_eat"} /\ pc' = pc) =>
          (regime' = "Stop" \/ Len(stack') < Len(stack))]_vars

\* Every call of Formula::read eventually returns.
C24_EatTerminates == <>(pc = "done")

\* Every call of Formula::read eventually returns in a debug build.
C24_DebugTerminates == debug_assertions => <>(pc = "done")

(***************************************************************************)
(* Claims about the tests of check_single_record on Simple records         *)
(***************************************************************************)
\* C25: the check of a record of index i whose id is not i fails with
\* IncorrectId, whatever its statement, context and justification; in the
\* proof `0;0;Supposons a;Hyp`, `2;0,2;a;Hyp` record 0 passes and record 1
\* fails with IncorrectId.
C25_IncorrectIdFirst ==
    /\ (Checked /\ At(records, arg).id # arg) => ret = "IncorrectId"
    /\ (/\ Checked
        /\ records = << Record(0, <<0>>, "Supposons", a, Hyp),
                        Record(2, <<0, 2>>, "Simple", a, Hyp) >>) =>
           ret = (IF arg = 0 THEN "Ok" ELSE "IncorrectId")

\* C25 witness: a Simple record justified by Hyp, at index 0 or with a
\* context other than the previous one, failed with IncorrectId.
C25_Witness ==
    /\ Checked
    /\ At(records, arg).id # arg
    /\ At(records, arg).stmt.kind = "Simple"
    /\ At(records, arg).justif.rule = "Hyp"
    /\ (arg = 0 \/ At(records, arg).ctxt # At(records, arg - 1).ctxt)
    /\ ret = "IncorrectId"

SemanticErrorNames ==
    {"IncorrectId", "SimpleIsFirst", "SimpleCtxtSameAsBefore", "HypNotSimple", "IImplNotSimple"}

\* C26: a Simple record at index 0, or whose context is not the context of
\* the previous record, or justified by Hyp or IImpl, is rejected; with the
\* right id the error is SimpleIsFirst at index 0, else
\* SimpleCtxtSameAsBefore when the contexts differ, else HypNotSimple or
\* IImplNotSimple.
C26_SimpleRejected ==
    (Checked /\ At(records, arg).stmt.kind = "Simple") =>
        LET rec == At(records, arg) IN
        /\ (arg = 0 \/ rec.ctxt # At(records, arg - 1).ctxt
               \/ rec.justif.rule \in {"Hyp", "IImpl"}) => ret \in SemanticErrorNames
        /\ (rec.id = arg /\ arg = 0) => ret = "SimpleIsFirst"
        /\ (rec.id = arg /\ arg > 0 /\ rec.ctxt # At(records, arg - 1).ctxt) =>
               ret = "SimpleCtxtSameAsBefore"
        /\ (rec.id = arg /\ arg > 0 /\ rec.ctxt = At(records, arg - 1).ctxt) =>
               /\ rec.justif.rule = "Hyp" => ret = "HypNotSimple"
               /\ rec.justif.rule = "IImpl" => ret = "IImplNotSimple"

\* C26 witness: a Simple record whose justification cites Bottom under a
\* compatible context was rejected for its context alone.
C26_Witness ==
    /\ Checked
    /\ arg > 0
    /\ At(records, arg).stmt.kind = "Simple"
    /\ At(records, arg).justif.rule = "Efq"
    /\ At(records, arg).justif.pos[1] < arg
    /\ At(records, At(records, arg).justif.pos[1]).stmt.formula = Bottom
    /\ IsPrefix(At(records, arg).ctxt, At(records, At(records, arg).justif.pos[1]).ctxt)
    /\ ret = "SimpleCtxtSameAsBefore"

\* The record of index i is a Simple record with the right id, not the
\* first, in the context of the previous record, justified by rule, and each
\* record it cites is below i with a context that the context of i prefixes.
PlainCiting(recs, i, rule) ==
    LET rec == At(recs, i) IN
    /\ rec.stmt.kind = "Simple"
    /\ rec.id = i
    /\ i > 0
    /\ rec.ctxt = At(recs, i - 1).ctxt
    /\ rec.justif.rule = rule
    /\ \A k \in 1..Len(rec.justif.pos) :
           /\ rec.justif.pos[k] < i
           /\ IsPrefix(rec.ctxt, At(recs, rec.justif.pos[k]).ctxt)

\* C27: a Simple record Or(L, R) justified by IOrR(left_pos, new_right) with
\* R = new_right and L other than the formula of record left_pos fails with
\* IOrRLeftNotMatching, and IOrRRightNotMatching is returned only when
\* R # new_right.
C27_IOrRNamesTheSide ==
    (Checked /\ PlainCiting(records, arg, "IOrR")
        /\ At(records, arg).stmt.formula[1] = "Or") =>
        LET rec == At(records, arg)
            cited == At(records, rec.justif.pos[1]).stmt.formula
        IN  /\ (Right(rec.stmt.formula) = rec.justif.formula
                  /\ Left(rec.stmt.formula) # cited) => ret = "IOrRLeftNotMatching"
            /\ ret = "IOrRRightNotMatching" =>
                  Right(rec.stmt.formula) # rec.justif.formula

\* The conditions of C28 on the record of index i justified by EOr.
EOrConditions(recs, i) ==
    LET rec == At(recs, i)
        atc == At(recs, rec.justif.pos[1]).stmt.formula
        btc == At(recs, rec.justif.pos[2]).stmt.formula
        aob == At(recs, rec.justif.pos[3]).stmt.formula
    IN  /\ atc[1] = "Implies"
        /\ btc[1] = "Implies"
        /\ aob[1] = "Or"
        /\ Left(atc) = Left(aob)
        /\ Left(btc) = Right(aob)
        /\ Right(atc) = Right(btc)
        /\ rec.stmt.formula = Right(atc)

\* C28: a Simple record f justified by EOr, under the preconditions of a
\* Simple record and of its three citations, passes if and only if the cited
\* formulas are A => C1, B => C2 and A' \/ B' with A = A', B = B', C1 = C2
\* and f = C1.
C28_EOrPassesIff ==
    (Checked /\ PlainCiting(records, arg, "EOr")) =>
        (ret = "Ok" <=> EOrConditions(records, arg))

\* C28 witness: a record justified by EOr passed on a disjunction of two
\* different formulas.
C28_Witness ==
    /\ Checked
    /\ PlainCiting(records, arg, "EOr")
    /\ ret = "Ok"
    /\ LET aob == At(records, At(records, arg).justif.pos[3]).stmt.formula
       IN  Left(aob) # Right(aob)

\* The conditions of C29 on the record of index i justified by EImpl.
EImplConditions(recs, i) ==
    LET rec == At(recs, i)
        hyp == At(recs, rec.justif.pos[1]).stmt.formula
        impl == At(recs, rec.justif.pos[2]).stmt.formula
    IN  /\ impl[1] = "Implies"
        /\ Left(impl) = hyp
        /\ Right(impl) = rec.stmt.formula

\* C29: a Simple record f justified by EImpl, under the preconditions of a
\* Simple record and of its two citations, passes if and only if the cited
\* implication is H => C with H the formula of the cited hypothesis and
\* C = f.
C29_EImplPassesIff ==
    (Checked /\ PlainCiting(records, arg, "EImpl")) =>
        (ret = "Ok" <=> EImplConditions(records, arg))

\* C29 witness: a record justified by EImpl passed.
C29_Witness ==
    /\ Checked
    /\ PlainCiting(records, arg, "EImpl")
    /\ ret = "Ok"

(***************************************************************************)
(* record.rs: Record::read_record, on strings as sequences of characters   *)
(***************************************************************************)
Digits == {"0", "1", "2", "3", "4", "5", "6", "7", "8", "9"}

Letters ==
    {"a", "b", "c", "d", "e", "f", "g", "h", "i", "j", "k", "l", "m", "n", "o", "p", "q", "r", "s", "t", "u", "v", "w", "x", "y", "z",
     "A", "B", "C", "D", "E", "F", "G", "H", "I", "J", "K", "L", "M", "N", "O", "P", "Q", "R", "S", "T", "U", "V", "W", "X", "Y", "Z"}

\* str::split: the pieces of s between the occurrences of sep.
RECURSIVE split(_, _)
split(s, sep) ==
    IF \A k \in 1..Len(s) : s[k] # sep THEN <<s>>
    ELSE LET i == CHOOSE k \in 1..Len(s) :
                      s[k] = sep /\ \A m \in 1..(k - 1) : s[m] # sep
         IN  <<SubSeq(s, 1, i - 1)>> \o split(SubSeq(s, i + 1, Len(s)), sep)

DigitValue(d) ==
    CASE d = "0" -> 0 [] d = "1" -> 1 [] d = "2" -> 2 [] d = "3" -> 3 [] d = "4" -> 4
      [] d = "5" -> 5 [] d = "6" -> 6 [] d = "7" -> 7 [] d = "8" -> 8 [] d = "9" -> 9

\* str::parse::<usize> on digits.
RECURSIVE parse_usize(_)
parse_usize(s) ==
    IF s = <<>> \/ \E k \in 1..Len(s) : s[k] \notin Digits THEN [ok |-> FALSE, v |-> 0]
    ELSE IF Len(s) = 1 THEN [ok |-> TRUE, v |-> DigitValue(s[1])]
    ELSE [ok |-> TRUE, v |-> parse_usize(Front(s)).v * 10 + DigitValue(Last(s))]

read_id(input) ==
    IF parse_usize(input).ok THEN [kind |-> "Ok", v |-> parse_usize(input).v]
    ELSE [kind |-> "InvalidId", v |-> 0]

NotEmpty(slc) == slc # <<>>

read_ctxt(input) ==
    LET slcs == SelectSeq(split(input, ","), NotEmpty) IN
    IF \E k \in 1..Len(slcs) : ~parse_usize(slcs[k]).ok THEN [kind |-> "InvalidCtxt", v |-> <<>>]
    ELSE [kind |-> "Ok", v |-> [k \in 1..Len(slcs) |-> parse_usize(slcs[k]).v]]

\* str::strip_prefix: what follows prefix in s, or <<"None">>.
strip_prefix(s, prefix) ==
    IF Len(s) >= Len(prefix) /\ SubSeq(s, 1, Len(prefix)) = prefix
    THEN SubSeq(s, Len(prefix) + 1, Len(s))
    ELSE <<"None">>

\* Formula::read on an input without operator and parenthesis: tokenize
\* takes letters only, each letter is pushed as a variable, and read returns
\* the last formula pushed.
read_atoms(input) ==
    IF \E k \in 1..Len(input) : input[k] \notin Letters
    THEN [kind |-> "InvalidCharacter", v |-> <<>>]
    ELSE IF input = <<>> THEN [kind |-> "EmptyParenthesis", v |-> <<>>]
    ELSE [kind |-> "Ok", v |-> Variable(Last(input))]

read_stmt(input) ==
    LET donc == strip_prefix(input, <<"D", "o", "n", "c", " ">>)
        supposons == strip_prefix(input, <<"S", "u", "p", "p", "o", "s", "o", "n", "s", " ">>)
        rest == IF donc # <<"None">> THEN donc
                ELSE IF supposons # <<"None">> THEN supposons
                ELSE input
        f == read_atoms(rest)
    IN  IF f.kind # "Ok" THEN [kind |-> "InvalidFormula", v |-> <<>>]
        ELSE [kind |-> "Ok",
              v |-> [kind |-> IF donc # <<"None">> THEN "Donc"
                              ELSE IF supposons # <<"None">> THEN "Supposons"
                              ELSE "Simple",
                     formula |-> f.v]]

(***************************************************************************)
(* justif.rs: Jusitification::read                                         *)
(***************************************************************************)
RuleNames ==
    {<<"I", "O", "r", "L">>,
     <<"I", "O", "r", "R">>,
     <<"E", "O", "r">>,
     <<"I", "A", "n", "d">>,
     <<"E", "A", "n", "d", "L">>,
     <<"E", "A", "n", "d", "R">>,
     <<"H", "y", "p">>,
     <<"I", "I", "m", "p", "l">>,
     <<"E", "I", "m", "p", "l">>,
     <<"E", "f", "q">>,
     <<"R", "a", "a">>}

\* The name of the rule written rule.
RuleOf(rule) ==
    CASE rule = <<"I", "O", "r", "L">> -> "IOrL"
      [] rule = <<"I", "O", "r", "R">> -> "IOrR"
      [] rule = <<"E", "O", "r">> -> "EOr"
      [] rule = <<"I", "A", "n", "d">> -> "IAnd"
      [] rule = <<"E", "A", "n", "d", "L">> -> "EAndL"
      [] rule = <<"E", "A", "n", "d", "R">> -> "EAndR"
      [] rule = <<"H", "y", "p">> -> "Hyp"
      [] rule = <<"I", "I", "m", "p", "l">> -> "IImpl"
      [] rule = <<"E", "I", "m", "p", "l">> -> "EImpl"
      [] rule = <<"E", "f", "q">> -> "Efq"
      [] rule = <<"R", "a", "a">> -> "Raa"

\* The arguments the arm of a rule reads, in order: what each one is parsed
\* as and the name of its two errors.
RuleArgs(rule) ==
    CASE rule = "IOrL" -> <<<<"usize", "IOrL_LeftPos">>, <<"formula", "IOrL_Formula">>>>
      [] rule = "IOrR" -> <<<<"usize", "IOrR_RightPos">>, <<"formula", "IOrR_Formula">>>>
      [] rule = "EOr" -> <<<<"usize", "EOr_A_to_C">>, <<"usize", "EOr_B_to_C">>, <<"usize", "EOr_A_or_B">>>>
      [] rule = "IAnd" -> <<<<"usize", "IAnd_Left">>, <<"usize", "IAnd_Right">>>>
      [] rule = "EAndL" -> <<<<"usize", "EAndL_Reference">>>>
      [] rule = "EAndR" -> <<<<"usize", "EAndR_Reference">>>>
      [] rule = "Hyp" -> <<>>
      [] rule = "IImpl" -> <<>>
      [] rule = "EImpl" -> <<<<"usize", "IImpl_Hyp">>, <<"usize", "IImpl_Implication">>>>
      [] rule = "Efq" -> <<<<"usize", "Efq_Reference">>>>
      [] rule = "Raa" -> <<<<"usize", "Raa_Reference">>>>

\* The argument of index k of the tokens s is there and is parsed.
ArgRead(s, args, k) ==
    /\ Len(s) >= k + 1
    /\ IF args[k][1] = "usize" THEN parse_usize(s[k + 1]).ok
       ELSE read_atoms(s[k + 1]).kind = "Ok"

\* The rule read from the tokens s whose arguments are all read.
RuleRead(s, rule, args) ==
    Justif(rule,
           [k \in 1..(IF rule \in {"IOrL", "IOrR"} THEN 1 ELSE Len(args)) |->
                parse_usize(s[k + 1]).v],
           IF rule \in {"IOrL", "IOrR"} THEN read_atoms(s[3]).v ELSE <<>>)

\* The error of the first argument of the tokens s that is not read.
ArgError(s, args) ==
    LET k == CHOOSE m \in 1..Len(args) :
                 ~ArgRead(s, args, m) /\ \A n \in 1..(m - 1) : ArgRead(s, args, n)
    IN  IF Len(s) < k + 1 THEN <<"Missing_In", args[k][2]>> ELSE <<"Invalid_In", args[k][2]>>

\* Jusitification::read that does not look for a token after the arguments.
Jusitification_read_rest_unread(input) ==
    LET s == split(input, " ") IN
    IF s[1] \notin RuleNames THEN [kind |-> <<"UnknownRule">>, v |-> Hyp]
    ELSE LET rule == RuleOf(s[1])
             args == RuleArgs(rule)
         IN  IF \E k \in 1..Len(args) : ~ArgRead(s, args, k)
             THEN [kind |-> ArgError(s, args), v |-> Hyp]
             ELSE [kind |-> <<"Ok">>, v |-> RuleRead(s, rule, args)]

\* The kind is <<"Ok">>, with the justification read, or the ReadError.
Jusitification_read(input) ==
    LET s == split(input, " ") IN
    IF s[1] \notin RuleNames THEN [kind |-> <<"UnknownRule">>, v |-> Hyp]
    ELSE LET rule == RuleOf(s[1])
             args == RuleArgs(rule)
         IN  IF \E k \in 1..Len(args) : ~ArgRead(s, args, k)
             THEN [kind |-> ArgError(s, args), v |-> Hyp]
             ELSE IF Len(s) > Len(args) + 1 THEN [kind |-> <<"InputTooLarge">>, v |-> Hyp]
             ELSE [kind |-> <<"Ok">>, v |-> RuleRead(s, rule, args)]

\* Record::read_justif: the error of Jusitification::read is an InvalidJustif.
read_justif(input) ==
    IF Jusitification_read(input).kind = <<"Ok">>
    THEN [kind |-> "Ok", v |-> Jusitification_read(input).v]
    ELSE [kind |-> "InvalidJustif", v |-> Hyp]

\* Record::read_record that does not look for a fifth field.
read_record_four_read(input) ==
    LET fields == split(input, ";")
        none == [kind |-> "MissingField", record |-> <<>>]
    IN  IF read_id(fields[1]).kind # "Ok" THEN [none EXCEPT !.kind = read_id(fields[1]).kind]
        ELSE IF Len(fields) < 2 THEN none
        ELSE IF read_ctxt(fields[2]).kind # "Ok"
        THEN [none EXCEPT !.kind = read_ctxt(fields[2]).kind]
        ELSE IF Len(fields) < 3 THEN none
        ELSE IF read_stmt(fields[3]).kind # "Ok"
        THEN [none EXCEPT !.kind = read_stmt(fields[3]).kind]
        ELSE IF Len(fields) < 4 THEN none
        ELSE IF read_justif(fields[4]).kind # "Ok"
        THEN [none EXCEPT !.kind = read_justif(fields[4]).kind]
        ELSE [kind |-> "Ok",
              record |-> [id |-> read_id(fields[1]).v, ctxt |-> read_ctxt(fields[2]).v,
                          stmt |-> read_stmt(fields[3]).v,
                          justif |-> read_justif(fields[4]).v]]

\* The kind is "Ok", with the record read, or the RecordError.
read_record(input) ==
    LET fields == split(input, ";")
        none == [kind |-> "MissingField", record |-> <<>>]
    IN  IF read_id(fields[1]).kind # "Ok" THEN [none EXCEPT !.kind = read_id(fields[1]).kind]
        ELSE IF Len(fields) < 2 THEN none
        ELSE IF read_ctxt(fields[2]).kind # "Ok"
        THEN [none EXCEPT !.kind = read_ctxt(fields[2]).kind]
        ELSE IF Len(fields) < 3 THEN none
        ELSE IF read_stmt(fields[3]).kind # "Ok"
        THEN [none EXCEPT !.kind = read_stmt(fields[3]).kind]
        ELSE IF Len(fields) < 4 THEN none
        ELSE IF read_justif(fields[4]).kind # "Ok"
        THEN [none EXCEPT !.kind = read_justif(fields[4]).kind]
        ELSE IF Len(fields) > 4 THEN [none EXCEPT !.kind = "TooMuch"]
        ELSE [kind |-> "Ok",
              record |-> [id |-> read_id(fields[1]).v, ctxt |-> read_ctxt(fields[2]).v,
                          stmt |-> read_stmt(fields[3]).v,
                          justif |-> read_justif(fields[4]).v]]

\* The fields the inputs are made of.
FieldSet ==
    { <<>>, <<"1">>, <<"2", ",", "3">>, <<"A">>,
      <<"D", "o", "n", "c", " ", "A">>,
      <<"E", "I", "m", "p", "l", " ", "3", " ", "4">>,
      <<"e", "x", "t", "r", "a">> }

\* The fields of fs with a semicolon between them.
RECURSIVE Join(_)
Join(fs) ==
    IF Len(fs) = 1 THEN fs[1] ELSE Join(Front(fs)) \o <<";">> \o Last(fs)

InitImport ==
    /\ debug_assertions \in BOOLEAN
    /\ NoRead
    /\ records = <<>>
    /\ valid = NotChecked
    /\ call = "none"
    /\ arg = <<>>
    /\ ret = "none"

\* Proof::import_record(input) on the empty proof.
import_record(input) ==
    /\ call = "none"
    /\ call' = "import_record"
    /\ arg' = input
    /\ LET r == read_record(input) IN
       IF r.kind = "Ok"
       THEN /\ valid' = IF valid.kind = "Valid" THEN ValidUntil(Len(records)) ELSE valid
            /\ records' = Append(records, r.record)
            /\ ret' = "Ok"
       ELSE /\ ret' = r.kind
            /\ UNCHANGED <<records, valid>>
    /\ UNCHANGED <<debug_assertions, parser_vars>>

NextImport ==
    /\ call = "none"
    /\ \E n \in 1..MaxFields : \E fs \in [1..n -> FieldSet] : import_record(Join(fs))

SpecImport == InitImport /\ [][NextImport]_vars

\* The number of fields of input: one more than its semicolons.
FieldCount(input) == Cardinality({k \in 1..Len(input) : input[k] = ";"}) + 1

\* input up to its fourth semicolon, for an input of five fields or more.
FirstFour(input) ==
    LET i == CHOOSE k \in 1..Len(input) :
                 /\ input[k] = ";"
                 /\ Cardinality({m \in 1..(k - 1) : input[m] = ";"}) = 3
    IN  SubSeq(input, 1, i - 1)

\* C30: import_record takes a record only from an input of exactly four
\* fields: an input of three fields or fewer gives no record, an input of
\* five fields or more whose first four fields are read gives TooMuch, and
\* "1;2,3;Donc A;EImpl 3 4;extra" gives TooMuch.
C30_ExactlyFourFields ==
    call = "import_record" =>
        /\ (ret = "Ok" \/ records # <<>>) => FieldCount(arg) = 4
        /\ FieldCount(arg) <= 3 => (ret # "Ok" /\ records = <<>>)
        /\ (FieldCount(arg) >= 5 /\ read_record(FirstFour(arg)).kind = "Ok") =>
               (ret = "TooMuch" /\ records = <<>>)
        /\ arg = <<"1", ";", "2", ",", "3", ";", "D", "o", "n", "c", " ", "A", ";", "E", "I", "m", "p", "l", " ", "3", " ", "4", ";", "e", "x", "t", "r", "a">> => ret = "TooMuch"

\* C30 witness: import_record has returned TooMuch on an input of five
\* fields whose first four fields are read.
C30_Witness ==
    /\ call = "import_record"
    /\ FieldCount(arg) = 5
    /\ read_record(FirstFour(arg)).kind = "Ok"
    /\ ret = "TooMuch"

(***************************************************************************)
(* Jusitification::read applied to bounded inputs                          *)
(***************************************************************************)
\* The tokens the inputs are made of.
TokenSet ==
    { <<>>, <<"H", "y", "p">>, <<"E", "I", "m", "p", "l">>, <<"I", "O", "r", "L">>, <<"F", "o", "o">>, <<"3">> }

\* The tokens of ts with a space between them.
RECURSIVE JoinTokens(_)
JoinTokens(ts) ==
    IF Len(ts) = 1 THEN ts[1] ELSE JoinTokens(Front(ts)) \o <<" ">> \o Last(ts)

\* The record whose first three fields are read and whose fourth is justif.
RecordLine(justif) == <<"1", ";", "2", ",", "3", ";", "D", "o", "n", "c", " ", "A", ";">> \o justif

\* Jusitification::read(input), once.
call_Jusitification_read(input) ==
    /\ call = "none"
    /\ call' = "Jusitification::read"
    /\ arg' = input
    /\ ret' = Jusitification_read(input).kind
    /\ UNCHANGED <<debug_assertions, parser_vars, records, valid>>

NextJustif ==
    /\ call = "none"
    /\ \E n \in 1..MaxTokens : \E ts \in [1..n -> TokenSet] :
           \/ call_Jusitification_read(JoinTokens(ts))
           \/ import_record(RecordLine(JoinTokens(ts)))

SpecJustif == InitImport /\ [][NextJustif]_vars

\* The tokens of input begin with a rule name, then its arguments, all read,
\* then one token or more.
TrailingToken(input) ==
    LET t == split(input, " ") IN
    /\ t[1] \in RuleNames
    /\ \A k \in 1..Len(RuleArgs(RuleOf(t[1]))) : ArgRead(t, RuleArgs(RuleOf(t[1])), k)
    /\ Len(t) > Len(RuleArgs(RuleOf(t[1]))) + 1

\* C31: Jusitification::read returns InputTooLarge when a token, empty or
\* not, follows the arguments of a known rule that are all read, and
\* UnknownRule when the first token is no rule name, whatever follows; a
\* record whose justification has such a token after the arguments is not
\* read.
C31_TrailingTokenAndUnknownRule ==
    /\ call = "Jusitification::read" =>
           /\ TrailingToken(arg) => ret = <<"InputTooLarge">>
           /\ split(arg, " ")[1] \notin RuleNames => ret = <<"UnknownRule">>
    /\ (call = "import_record" /\ TrailingToken(split(arg, ";")[4])) =>
           (ret = "InvalidJustif" /\ records = <<>>)

\* C31 witness: Jusitification::read has returned InputTooLarge on a rule of
\* two arguments followed by an empty token.
C31_Witness ==
    /\ call = "Jusitification::read"
    /\ TrailingToken(arg)
    /\ Len(split(arg, " ")) = 4
    /\ split(arg, " ")[4] = <<>>
    /\ ret = <<"InputTooLarge">>

(***************************************************************************)
(* Claims about check_up_to, check and the front end                       *)
(***************************************************************************)
\* C32: check_up_to(k) with k at or above the number of records returns Err
\* and leaves the state and the records as they were.
C32_CheckUpToOutOfRange ==
    [][(call' = "check_up_to" /\ arg' >= Len(records)) =>
          (ret' = "Err" /\ valid' = valid /\ records' = records)]_vars

\* C32 witness: check_up_to(k) has returned Err on a proof of k records or
\* fewer whose state is SemanticErrors.
C32_Witness ==
    /\ call = "check_up_to"
    /\ arg >= Len(records)
    /\ ret = "Err"
    /\ valid.kind = "SemanticErrors"

\* main: the Answer made of the state of the proof after check().
Answer(state_of_proof) ==
    CASE state_of_proof.kind = "NotChecked" -> "InternalError(0)"
      [] state_of_proof.kind = "ValidUntil" -> "InternalError(1)"
      [] state_of_proof.kind = "SemanticErrors" -> "ErrorsInTheProof"
      [] state_of_proof.kind = "Valid" -> "AllRight"

\* Termination::report: the exit code of an Answer.
report(answer) == IF answer = "AllRight" THEN "SUCCESS" ELSE "FAILURE"

\* C36: once check() has returned on a proof of one record or more, the state
\* is Valid or SemanticErrors: the answer of main is neither InternalError(0)
\* nor InternalError(1), and its exit code is SUCCESS exactly when the state
\* is Valid.
C36_CheckEndsValidOrErrors ==
    (call = "check" /\ ret = "Ok") =>
        /\ records # <<>>
        /\ valid.kind \in {"Valid", "SemanticErrors"}
        /\ Answer(valid) \notin {"InternalError(0)", "InternalError(1)"}
        /\ report(Answer(valid)) = "SUCCESS" <=> valid = Valid

\* C36 witness: check() has returned on a proof extended by add_record whose
\* records all pass.
C36_Witness ==
    /\ call = "check"
    /\ ret = "Ok"
    /\ Len(records) >= 2
    /\ valid = Valid

\* C37: a step that changes the records leaves the outcome of the check of
\* every record already held as it was: Ok, or the same error.
C37_AppendKeepsOutcomes ==
    [][records' # records =>
          \A i \in 0..(Len(records) - 1) :
              check_single_record(records', i, debug_assertions)
                  = check_single_record(records, i, debug_assertions)]_vars

\* C37 witness: add_record has added a third record to a proof whose record
\* 0 passes and whose record 1 fails.
C37_Witness ==
    /\ call = "add_record"
    /\ Len(records) = 3
    /\ Passes(records, 0)
    /\ ~Passes(records, 1)

(***************************************************************************)
(* Proofs built record by record with citations of any earlier record      *)
(***************************************************************************)
\* The records given as record Len(recs): a Supposons of a, a Simple record
\* that weakens by IOrL the formula of any earlier record, a Donc of
\* a => the previous formula, each in the previous context, in it with one
\* more hypothesis, in it with one hypothesis less, and in the empty context.
ScopeRecords(recs) ==
    LET i == Len(recs)
        prev == IF i = 0 THEN <<>> ELSE At(recs, i - 1).ctxt
        prevf == IF i = 0 THEN a ELSE At(recs, i - 1).stmt.formula
        ctxts == {prev, Append(prev, i), <<>>}
                     \cup (IF prev = <<>> THEN {} ELSE {Front(prev)})
    IN  UNION { { Record(i, ct, "Supposons", a, Hyp),
                  Record(i, ct, "Donc", Implies(a, prevf), IImpl) }
                \cup { Record(i, ct, "Simple", Or(a, At(recs, j).stmt.formula),
                              Justif("IOrL", <<j>>, a)) : j \in 0..(i - 1) } :
                ct \in ctxts }

InitScope ==
    /\ debug_assertions \in BOOLEAN
    /\ NoRead
    /\ \E r \in ScopeRecords(<<>>) : records = <<r>>
    /\ valid = NotChecked
    /\ call = "read_proof"
    /\ arg = 0
    /\ ret = "Ok"

NextScope ==
    \/ \E r \in ScopeRecords(records) : session_add_record(r)
    \/ check

SpecScope == InitScope /\ [][NextScope]_vars

\* C33: in a proof that check() finds Valid, the context of every record
\* cited by a Simple record is a prefix of the context of that Simple record.
C33_CitedScopeStillOpen ==
    (call = "check" /\ valid = Valid) =>
        \A i \in 0..(Len(records) - 1) :
            At(records, i).stmt.kind = "Simple" =>
                \A k \in 1..Len(At(records, i).justif.pos) :
                    IsPrefix(At(records, At(records, i).justif.pos[k]).ctxt,
                             At(records, i).ctxt)

\* C34: check_up_to(k) with k below the number of records returns Ok and
\* writes a verdict, whatever the records are: no index is out of range and
\* hyp_pos + 2 does not overflow.
C34_CheckUpToReturns ==
    (call = "check_up_to" /\ arg < Len(records)) =>
        (ret = "Ok" /\ valid.kind \in {"Valid", "ValidUntil", "SemanticErrors"})

\* s is a formula of the grammar F ::= atom | Not F | F op F | ( F ).
RECURSIVE InGrammar(_)
InGrammar(s) ==
    \/ Len(s) = 1 /\ s[1] \in Atoms
    \/ Len(s) >= 2 /\ s[1] = "Not" /\ InGrammar(SubSeq(s, 2, Len(s)))
    \/ /\ Len(s) >= 3
       /\ s[1] = "OpeningParenthesis"
       /\ s[Len(s)] = "ClosingParenthesis"
       /\ InGrammar(SubSeq(s, 2, Len(s) - 1))
    \/ \E k \in 2..(Len(s) - 1) :
           /\ s[k] \in BinaryOperators
           /\ InGrammar(SubSeq(s, 1, k - 1))
           /\ InGrammar(SubSeq(s, k + 1, Len(s)))

\* C35: in a debug build, Formula::read returns Ok only on a formula of the
\* grammar, and never on an input where a binary operator follows an opening
\* parenthesis.
C35_OkOnlyInGrammar ==
    (debug_assertions /\ pc = "done" /\ result = "Ok") =>
        /\ InGrammar(lexemes)
        /\ \A k \in 1..(Len(lexemes) - 1) :
               ~(lexemes[k] = "OpeningParenthesis" /\ lexemes[k + 1] \in BinaryOperators)

====
